---- MODULE Spec2Model ----
(***************************************************************************)
(* A model of the transaction core of the object store: the per-txn        *)
(* acceptor state machine (paxos/acceptor.go), the var write protocol      *)
(* (txnengine/var.go), the connection manager registry                     *)
(* (network/protocols.go) and proposer admission                           *)
(* (paxos/proposermanager.go).                                             *)
(***************************************************************************)
EXTENDS Integers, Sequences, FiniteSets, TLC

\* The nil pointer, and the nil state of a state machine.
Nil == [nil |-> TRUE]
NoState == "nil"
NoWhich == "none"

Last(s) == s[Len(s)]

SeqToSet(s) == {s[i] : i \in 1..Len(s)}

RECURSIVE SeqFilterOut(_, _)
SeqFilterOut(s, drop) ==
  IF s = <<>> THEN <<>>
  ELSE IF Head(s) \in drop THEN SeqFilterOut(Tail(s), drop)
       ELSE <<Head(s)>> \o SeqFilterOut(Tail(s), drop)

(***************************************************************************)
(* ACCEPTOR (src/paxos/acceptor.go)                                        *)
(***************************************************************************)

\* Bounds of the acceptor model.
MaxOutcomes == 2

\* The txn under consideration: one var, F = 1, three allocations of which
\* the first FInc are active (alloc.Active() != 0), submitted by RM 1.
RMs == {1, 2, 3}
Allocations == << [rmId |-> 1, active |-> 1],
                  [rmId |-> 2, active |-> 1],
                  [rmId |-> 3, active |-> 0] >>
TxnSubmitter == 1
\* One paxos instance per active voter of the var.
Instances == {1, 2}
\* RMs that a topology change may remove.
RemovableRMs == {3}
\* RMs whose connection to the acceptor's node comes and goes.
ConnRMs == {2}
\* Nodes that run an acceptor for the txn.
Acceptors == {1, 2}

VARIABLES
  acc,        \* acc[a]: the Acceptor object on node a and its node-local surroundings
  proposed,   \* proposed[i]: the ballots proposers have put forward for instance i
  accs,       \* the acceptors that take part in the run
  vr,         \* a var, its VarManager entry, the KV store and the executor
  cm,         \* the ConnectionManager, its connections and its subscribers
  pm,         \* the ProposerManager and the txns it receives
  tt,         \* the TopologyTransmogrifier
  conn,       \* a Connection, its handshaker and its protocol
  cr,         \* the connectionRun of a Connection and its heartbeats
  vc,         \* a client's version cache
  bbe,        \* a submitter's BinaryBackoffEngine
  ts,         \* the topology subscribers and the go-routines awaiting their answers
  qt,         \* a quiet task, its installations and the subscribers' answers
  vm,         \* the VarManager's topology changes, its vars and its executor
  sm,         \* a client's SubscriptionManager
  dm,         \* the submitter's table of client connections and the outcomes it dispatches
  ptc,        \* the ProposerManager's topology changes, its proposer and its actor
  va          \* the VarManager's active table and the Var objects of each VarUUId

acceptorVars == <<acc, proposed, accs>>

\* ---- outcomes --------------------------------------------------------------

\* An outcome object: id is the pointer identity, which is the content
\* (Commit / Abort(Rerun) / Abort(Resubmit)).
Outcome(id, which) == [id |-> id, which |-> which]

IsCommit(o) == o.which = "Commit"

\* outcomeEqualId.Equal: same object, or agreeing on commit-or-abort, on the
\* clock and, for Rerun, on the updates (one clock and one update set exist
\* for the txn, so the content is the variant).
Equal(o1, o2) ==
  IF o1 = Nil \/ o2 = Nil THEN o1 = o2
  ELSE o1.id = o2.id \/ o1.which = o2.which

\* ---- ballot accumulator ----------------------------------------------------

\* The outcome the accumulator determines from the ballots it holds, or
\* NoWhich while it is undetermined: it needs the ballots of all instances,
\* except that for a retry txn any abort ballot determines the outcome at once.
DetermineWhich(accepted, retry) ==
  LET held == {i \in Instances : accepted[i] # "None"}
      votes == {accepted[i] : i \in held}
      enough == held = Instances \/ (retry /\ votes \ {"Commit"} # {})
  IN IF ~enough THEN NoWhich
     ELSE IF "Deadlock" \in votes THEN "Resubmit"
     ELSE IF "BadRead" \in votes THEN "Rerun"
     ELSE "Commit"

\* BallotAccumulator.BallotReceived: record the ballot of the instance and
\* return the accumulator's ballots.
BallotReceived(accepted, instanceRMId, vote) ==
  [accepted EXCEPT ![instanceRMId] = vote]

\* ---- the acceptor object ---------------------------------------------------

\* NewAcceptor: the object after construction, with the node-local services
\* it talks to (KV store, executor, connection manager).
NewAcceptor(self) ==
  [ currentState    |-> NoState,
    finished        |-> FALSE,
    createdFromDisk |-> FALSE,
    accepted        |-> [i \in Instances |-> "None"],
    outcome         |-> Nil,
    outcomeOnDisk   |-> Nil,
    nextId          |-> 1,
    sendToAll       |-> FALSE,
    sendToAllOnDisk |-> FALSE,
    pendingTLC      |-> {},
    tlcsReceived    |-> {},
    tgcRecipients   |-> <<>>,
    tscReceived     |-> FALSE,
    twoBSender      |-> Nil,
    txnSender       |-> Nil,
    senderSeq       |-> 1,
    rmsRemoved      |-> {},
    kv              |-> <<>>,
    disk            |-> Nil,
    exe             |-> {},
    cmQueue         |-> <<>>,
    subscribers     |-> {},
    conns           |-> [rm \in RMs |-> 1],
    lastSends       |-> {},
    firstSent       |-> {},
    putDone         |-> {},
    tgcSent         |-> Nil ]

\* AcceptorFromData: the acceptor of a txn whose record (outcome, sendToAll,
\* accepted ballots) is in the KV store when the node starts.
AcceptorFromData(self, data) ==
  LET outcome == Outcome(1, data.which)
  IN [NewAcceptor(self) EXCEPT
        !.createdFromDisk = TRUE,
        !.accepted = data.instances,
        !.outcome = outcome,
        !.nextId = 2,
        !.sendToAll = data.sendToAll,
        !.sendToAllOnDisk = data.sendToAll,
        !.outcomeOnDisk = outcome,
        !.disk = data,
        !.putDone = {data.which}]

\* AcceptorManager.{Add,Remove}ServerConnectionSubscriber: a message to the
\* connection manager.
AddServerConnectionSubscriber(r, sub) ==
  [r EXCEPT !.cmQueue = Append(@, [op |-> "Add", sub |-> sub])]

RemoveServerConnectionSubscriber(r, sub) ==
  [r EXCEPT !.cmQueue = Append(@, [op |-> "Remove", sub |-> sub])]

ArbSubscriber == [kind |-> "arb"]

\* acceptorDeleteFromDisk.start
deleteFromDiskStart(r) ==
  LET r1 == IF r.twoBSender # Nil
            THEN [RemoveServerConnectionSubscriber(r, r.twoBSender) EXCEPT !.twoBSender = Nil]
            ELSE r
  IN [r1 EXCEPT !.kv = Append(@, [op |-> "Del", cb |-> [type |-> "deletionDone", n |-> Len(r1.kv)]])]

\* maybeDelete that does not wait for the submitter's TSC.
maybeDeleteWithoutTSC(r) ==
  IF r.currentState = "AwaitLocallyComplete" /\ r.pendingTLC = {}
  THEN deleteFromDiskStart([r EXCEPT !.currentState = "DeleteFromDisk"])
  ELSE r

\* acceptorAwaitLocallyComplete.maybeDelete, with the nextState(nil) it calls
maybeDelete(r) ==
  IF r.currentState = "AwaitLocallyComplete" /\ r.tscReceived /\ r.pendingTLC = {}
  THEN deleteFromDiskStart([r EXCEPT !.currentState = "DeleteFromDisk"])
  ELSE r

\* newTwoBTxnVotesSender: the submitter's message carries the outcome as it
\* is; the outcome object is then changed in place to Abort(Resubmit) when it
\* is an abort, and the 2B message carries that.
TwoBWhich(which) == IF which = "Commit" THEN "Commit" ELSE "Resubmit"

newTwoBTxnVotesSender(id, outcome, submitter, recipients) ==
  [ kind         |-> "twoB",
    id           |-> id,
    msg          |-> TwoBWhich(outcome.which),
    recipients   |-> recipients,
    submitterMsg |-> outcome.which,
    submitter    |-> submitter ]

tgcRecipientsOf(r) ==
  LET keep == SelectSeq(Allocations,
                LAMBDA al : al.rmId \notin r.rmsRemoved /\ (r.sendToAllOnDisk \/ al.active # 0))
  IN [i \in 1..Len(keep) |-> keep[i].rmId]

\* acceptorAwaitLocallyComplete.start
awaitLocallyCompleteStart(r) ==
  LET r1 == IF r.twoBSender # Nil
            THEN [RemoveServerConnectionSubscriber(r, r.twoBSender) EXCEPT !.twoBSender = Nil]
            ELSE r
      recipients == tgcRecipientsOf(r)
      pending == {rm \in SeqToSet(recipients) : rm \notin r.tlcsReceived}
      tsc == r.tscReceived \/ TxnSubmitter \in r.rmsRemoved
      r2 == [r1 EXCEPT !.pendingTLC = pending,
                       !.tgcRecipients = recipients,
                       !.tscReceived = tsc]
      sender == newTwoBTxnVotesSender(r.senderSeq, r.outcomeOnDisk, TxnSubmitter, recipients)
      mutated == [r.outcomeOnDisk EXCEPT !.which = TwoBWhich(@)]
      r3 == [r2 EXCEPT !.twoBSender = sender,
                       !.senderSeq = @ + 1,
                       !.outcomeOnDisk = mutated,
                       !.outcome = IF @ # Nil /\ @.id = mutated.id THEN mutated ELSE @]
  IN IF pending = {} /\ tsc
     THEN maybeDelete(r2)
     ELSE AddServerConnectionSubscriber(r3, sender)

\* acceptorWriteToDisk.start that takes sendToAll from the outcome at hand.
writeToDiskStartForgetful(r) ==
  LET r1 == RemoveServerConnectionSubscriber(r, ArbSubscriber)
      r2 == IF r.txnSender # Nil
            THEN RemoveServerConnectionSubscriber(r1, r.txnSender)
            ELSE r1
      sendToAll == IsCommit(r.outcome)
  IN [r2 EXCEPT !.sendToAll = sendToAll,
                !.kv = Append(@, [op |-> "Put",
                                  data |-> [which |-> r.outcome.which,
                                            sendToAll |-> sendToAll,
                                            instances |-> r.accepted],
                                  cb |-> [type |-> "writeDone",
                                          outcome |-> r.outcome.id,
                                          sendToAll |-> sendToAll]])]

\* acceptorWriteToDisk.start
writeToDiskStart(r) ==
  LET r1 == RemoveServerConnectionSubscriber(r, ArbSubscriber)
      r2 == IF r.txnSender # Nil
            THEN RemoveServerConnectionSubscriber(r1, r.txnSender)
            ELSE r1
      sendToAll == r.sendToAll \/ IsCommit(r.outcome)
  IN [r2 EXCEPT !.sendToAll = sendToAll,
                !.kv = Append(@, [op |-> "Put",
                                  data |-> [which |-> r.outcome.which,
                                            sendToAll |-> sendToAll,
                                            instances |-> r.accepted],
                                  cb |-> [type |-> "writeDone",
                                          outcome |-> r.outcome.id,
                                          sendToAll |-> sendToAll]])]

\* acceptorReceiveBallots.start
receiveBallotsStart(r) == AddServerConnectionSubscriber(r, ArbSubscriber)

\* nextState that goes from WriteToDisk straight to DeleteFromDisk.
nextStateSkippingAwait(r, requestedState) ==
  LET next == IF requestedState # NoState THEN requestedState
              ELSE CASE r.currentState = "ReceiveBallots" -> "WriteToDisk"
                     [] r.currentState = "WriteToDisk" -> "DeleteFromDisk"
                     [] r.currentState = "AwaitLocallyComplete" -> "DeleteFromDisk"
                     [] r.currentState = "DeleteFromDisk" -> NoState
                     [] OTHER -> r.currentState
      r1 == [r EXCEPT !.currentState = next]
  IN CASE next = "ReceiveBallots" -> receiveBallotsStart(r1)
       [] next = "WriteToDisk" -> writeToDiskStart(r1)
       [] next = "AwaitLocallyComplete" -> awaitLocallyCompleteStart(r1)
       [] next = "DeleteFromDisk" -> deleteFromDiskStart(r1)
       [] OTHER -> r1

\* Acceptor.nextState
nextState(r, requestedState) ==
  LET next == IF requestedState # NoState THEN requestedState
              ELSE CASE r.currentState = "ReceiveBallots" -> "WriteToDisk"
                     [] r.currentState = "WriteToDisk" -> "AwaitLocallyComplete"
                     [] r.currentState = "AwaitLocallyComplete" -> "DeleteFromDisk"
                     [] r.currentState = "DeleteFromDisk" -> NoState
                     [] OTHER -> r.currentState
      r1 == [r EXCEPT !.currentState = next]
  IN CASE next = "ReceiveBallots" -> receiveBallotsStart(r1)
       [] next = "WriteToDisk" -> writeToDiskStart(r1)
       [] next = "AwaitLocallyComplete" -> awaitLocallyCompleteStart(r1)
       [] next = "DeleteFromDisk" -> deleteFromDiskStart(r1)
       [] OTHER -> r1

\* Acceptor.Start
AcceptorStart(r) ==
  IF r.currentState # NoState THEN r
  ELSE IF r.outcomeOnDisk = Nil
       THEN nextState(r, "ReceiveBallots")
       ELSE nextState(r, "AwaitLocallyComplete")

\* BallotAccepted that keeps the first outcome it determined.
BallotAcceptedFirstOutcomeSticks(r, instanceRMId, vote, retry) ==
  LET accepted == BallotReceived(r.accepted, instanceRMId, vote)
      which == DetermineWhich(accepted, retry)
      outcome == Outcome(r.nextId, which)
      r1 == [r EXCEPT !.accepted = accepted]
  IN IF which # NoWhich /\ r.outcome = Nil
     THEN nextState([r1 EXCEPT !.outcome = outcome, !.nextId = @ + 1], "WriteToDisk")
     ELSE r1

\* BallotAccepted that ignores ballots once a TLC has been received.
BallotAcceptedUnlessTLC(r, instanceRMId, vote, retry) ==
  LET accepted == BallotReceived(r.accepted, instanceRMId, vote)
      which == DetermineWhich(accepted, retry)
      outcome == Outcome(r.nextId, which)
      r1 == [r EXCEPT !.accepted = accepted]
  IN IF r.tlcsReceived # {} THEN r
     ELSE IF which # NoWhich /\ ~Equal(outcome, r.outcome)
     THEN nextState([r1 EXCEPT !.outcome = outcome, !.nextId = @ + 1], "WriteToDisk")
     ELSE r1

\* acceptorReceiveBallots.BallotAccepted
BallotAccepted(r, instanceRMId, vote, retry) ==
  LET accepted == BallotReceived(r.accepted, instanceRMId, vote)
      which == DetermineWhich(accepted, retry)
      outcome == Outcome(r.nextId, which)
      r1 == [r EXCEPT !.accepted = accepted]
  IN IF which # NoWhich /\ ~Equal(outcome, r.outcome)
     THEN nextState([r1 EXCEPT !.outcome = outcome, !.nextId = @ + 1], "WriteToDisk")
     ELSE r1

\* writeDone that does not check which outcome's write has completed.
writeDoneAnyOutcome(r, outcome, sendToAll) ==
  IF r.outcome # Nil /\ r.currentState = "WriteToDisk"
  THEN nextState([r EXCEPT !.outcomeOnDisk = r.outcome,
                           !.sendToAllOnDisk = sendToAll], NoState)
  ELSE r

\* acceptorWriteToDisk.writeDone
writeDone(r, outcome, sendToAll) ==
  IF r.outcome # Nil /\ r.outcome.id = outcome /\ r.currentState = "WriteToDisk"
  THEN nextState([r EXCEPT !.outcomeOnDisk = r.outcome,
                           !.sendToAllOnDisk = sendToAll], NoState)
  ELSE r

\* acceptorAwaitLocallyComplete.TxnLocallyCompleteReceived
TxnLocallyCompleteReceived(r, sender) ==
  LET r1 == [r EXCEPT !.tlcsReceived = @ \cup {sender}]
  IN IF r1.currentState = "AwaitLocallyComplete"
     THEN maybeDelete([r1 EXCEPT !.pendingTLC = @ \ {sender}])
     ELSE r1

\* acceptorAwaitLocallyComplete.TxnSubmissionCompleteReceived
TxnSubmissionCompleteReceived(r, sender) ==
  IF ~r.tscReceived
  THEN maybeDelete([r EXCEPT !.tscReceived = TRUE])
  ELSE r

RECURSIVE TLCsFromRemoved(_, _)
TLCsFromRemoved(r, removed) ==
  IF removed = {} THEN r
  ELSE LET rm == CHOOSE x \in removed : TRUE
       IN TLCsFromRemoved(TxnLocallyCompleteReceived(r, rm), removed \ {rm})

\* TopologyChanged that strikes the removed RMs off the TGC recipients and
\* does no more.
AcceptorTopologyChangedRecipientsOnly(r, self, rmsRemoved) ==
  LET r0 == [r EXCEPT !.rmsRemoved = rmsRemoved]
  IN IF self \in rmsRemoved THEN r0
     ELSE [r0 EXCEPT !.tgcRecipients = SeqFilterOut(@, rmsRemoved)]

\* acceptorAwaitLocallyComplete.TopologyChanged, after the acceptor manager
\* has stored the topology (self is the manager's RMId)
AcceptorTopologyChanged(r, self, rmsRemoved) ==
  LET r0 == [r EXCEPT !.rmsRemoved = rmsRemoved]
  IN IF self \in rmsRemoved THEN r0
     ELSE LET r1 == [r0 EXCEPT !.tgcRecipients = SeqFilterOut(@, rmsRemoved)]
              r2 == TLCsFromRemoved(r1, rmsRemoved)
          IN IF TxnSubmitter \in rmsRemoved
             THEN TxnSubmissionCompleteReceived(r2, TxnSubmitter)
             ELSE r2

\* acceptorDeleteFromDisk.deletionDone
deletionDone(r) ==
  IF r.currentState = "DeleteFromDisk"
  THEN [nextState(r, NoState) EXCEPT !.finished = TRUE,
                                 !.tgcSent = [recipients |-> r.tgcRecipients,
                                              disk |-> r.disk]]
  ELSE r

\* acceptorReceiveBallots.createTxnSender
TxnSubmitterBootCount == 1

activeRMs ==
  LET RECURSIVE upTo(_)
      upTo(idx) == IF idx > Len(Allocations) \/ Allocations[idx].active = 0 THEN <<>>
                   ELSE <<Allocations[idx].rmId>> \o upTo(idx + 1)
  IN upTo(1)

\* createTxnSender that does not ask which state the acceptor is in.
createTxnSenderAnyState(r) ==
  IF r.txnSender = Nil
  THEN LET sender == [kind |-> "txnSender", recipients |-> activeRMs]
       IN AddServerConnectionSubscriber(
            [RemoveServerConnectionSubscriber(r, ArbSubscriber) EXCEPT !.txnSender = sender],
            sender)
  ELSE r

createTxnSender(r) ==
  IF r.currentState = "ReceiveBallots" /\ r.txnSender = Nil
  THEN LET sender == [kind |-> "txnSender", recipients |-> activeRMs]
       IN AddServerConnectionSubscriber(
            [RemoveServerConnectionSubscriber(r, ArbSubscriber) EXCEPT !.txnSender = sender],
            sender)
  ELSE r

\* acceptorReceiveBallots.enqueueCreateTxnSender
enqueueCreateTxnSender(r) ==
  [r EXCEPT !.exe = @ \cup {[type |-> "createTxnSender"]}]

\* twoBTxnVotesSender.ConnectedRMs / ConnectionEstablished: the messages the
\* sender s hands to conn.Send, as (sender, kind, content) records.
twoBConnectedRMs(s, conns) ==
  {[sender |-> s.id, kind |-> "2B", which |-> s.msg] :
      rm \in {x \in SeqToSet(s.recipients) : conns[x] # 0}}
  \cup {[sender |-> s.id, kind |-> "SubmissionOutcome", which |-> s.submitterMsg] :
      rm \in {x \in {s.submitter} : conns[x] # 0}}

\* ConnectionEstablished that sends the submitter's form of the outcome to
\* every recipient.
twoBConnectionEstablishedSubmitterMsg(s, rmId) ==
  {[sender |-> s.id, kind |-> "2B", which |-> s.submitterMsg] :
      rm \in {x \in SeqToSet(s.recipients) : x = rmId}}
  \cup {[sender |-> s.id, kind |-> "SubmissionOutcome", which |-> s.submitterMsg] :
      rm \in {x \in {s.submitter} : x = rmId}}

twoBConnectionEstablished(s, rmId) ==
  {[sender |-> s.id, kind |-> "2B", which |-> s.msg] :
      rm \in {x \in SeqToSet(s.recipients) : x = rmId}}
  \cup {[sender |-> s.id, kind |-> "SubmissionOutcome", which |-> s.submitterMsg] :
      rm \in {x \in {s.submitter} : x = rmId}}

\* Book-keeping of what has been handed to conn.Send: the sends of the
\* latest connection manager step, stamped with the acceptor's state and the
\* KV record at that moment, and the first message of every sender and kind.
recordSends(r, msgs) ==
  [r EXCEPT !.lastSends = {[sender |-> m.sender, kind |-> m.kind, which |-> m.which,
                            state |-> r.currentState, disk |-> r.disk] : m \in msgs},
            !.firstSent = @ \cup {m \in msgs :
                                    ~\E f \in r.firstSent : f.sender = m.sender /\ f.kind = m.kind}]

\* serverConnSubscribers.AddSubscriber / RemoveSubscriber, as the connection
\* manager's actor loop runs them for the next queued message.
cmProcess(r) ==
  LET m == Head(r.cmQueue)
      r1 == [r EXCEPT !.cmQueue = Tail(@), !.lastSends = {}]
  IN IF m.op = "Remove" THEN [r1 EXCEPT !.subscribers = @ \ {m.sub}]
     ELSE IF m.sub \in r.subscribers THEN r1
     ELSE LET r2 == [r1 EXCEPT !.subscribers = @ \cup {m.sub}]
          IN CASE m.sub.kind = "twoB" -> recordSends(r2, twoBConnectedRMs(m.sub, r.conns))
               [] m.sub.kind = "arb" ->
                    \* acceptorReceiveBallots.ConnectedRMs
                    IF r.conns[TxnSubmitter] = 0
                       \/ (r.conns[TxnSubmitter] # TxnSubmitterBootCount /\ TxnSubmitterBootCount > 0)
                    THEN enqueueCreateTxnSender(r2)
                    ELSE r2
               [] OTHER -> r2

\* serverConnSubscribers.ServerConnLost
cmConnectionLost(r, rmId) ==
  LET r1 == [r EXCEPT !.conns[rmId] = 0, !.lastSends = {}]
  IN IF ArbSubscriber \in r.subscribers /\ rmId = TxnSubmitter
     THEN enqueueCreateTxnSender(r1)
     ELSE r1

\* serverConnSubscribers.ServerConnEstablished
cmConnectionEstablished(r, rmId, bootCount) ==
  LET r1 == [r EXCEPT !.conns[rmId] = bootCount]
      r2 == IF ArbSubscriber \in r.subscribers /\ rmId = TxnSubmitter
               /\ bootCount # TxnSubmitterBootCount /\ TxnSubmitterBootCount > 0
            THEN enqueueCreateTxnSender(r1)
            ELSE r1
      msgs == UNION {twoBConnectionEstablished(s, rmId) :
                        s \in {x \in r.subscribers : x.kind = "twoB"}}
  IN recordSends(r2, msgs)

\* The KV worker runs the next read-write transaction and completes its
\* future; the waiting go-routine enqueues the callback on the executor.
kvExecute(r) ==
  LET t == Head(r.kv)
  IN [r EXCEPT !.kv = Tail(@),
               !.disk = IF t.op = "Put" THEN t.data ELSE Nil,
               !.putDone = IF t.op = "Put" THEN @ \cup {t.data.which} ELSE @,
               !.exe = @ \cup {t.cb}]

\* The executor runs an enqueued function.
exeRun(r, cb) ==
  LET r1 == [r EXCEPT !.exe = @ \ {cb}]
  IN CASE cb.type = "writeDone" -> writeDone(r1, cb.outcome, cb.sendToAll)
       [] cb.type = "deletionDone" -> deletionDone(r1)
       [] cb.type = "createTxnSender" -> createTxnSender(r1)

\* ---- actions ---------------------------------------------------------------

FInc == 2

Live(a) == a \in accs /\ acc[a].currentState # NoState /\ ~acc[a].finished

\* Every step of a node other than a connection manager step sends nothing.
Quiet(r) == [r EXCEPT !.lastSends = {}]

AStart(a) ==
  /\ a \in accs /\ acc[a].currentState = NoState /\ ~acc[a].finished
  /\ acc' = [acc EXCEPT ![a] = Quiet(AcceptorStart(@))]
  /\ UNCHANGED <<proposed, accs, vr, cm, pm, tt, conn, cr, vc, bbe, ts, qt, vm, sm, dm, ptc, va>>

\* A proposer that believes the voter of instance i to be dead runs phase 1
\* and proposes an AbortDeadlock ballot for it in a higher round; possible
\* while the voter's own ballot is not yet accepted by FInc acceptors.
ProposeAbort(i) ==
  /\ ~proposed.abort[i]
  /\ Cardinality({a \in accs : acc[a].accepted[i] = proposed.v1[i]}) < FInc
  /\ proposed' = [proposed EXCEPT !.abort[i] = TRUE]
  /\ UNCHANGED <<acc, accs, vr, cm, pm, tt, conn, cr, vc, bbe, ts, qt, vm, sm, dm, ptc, va>>

\* The ballots instance i can deliver to acceptor a: the voter's own ballot
\* (round 1), again or for the first time, or the abort ballot of a later round.
Deliverable(a, i) ==
  {v \in {proposed.v1[i]} :
      acc[a].accepted[i] = v \/ (acc[a].accepted[i] = "None" /\ ~proposed.abort[i])}
  \cup {v \in {"Deadlock"} : proposed.abort[i]}

ABallotAccepted(a, i) ==
  /\ Live(a)
  /\ acc[a].nextId <= MaxOutcomes
  /\ \E vote \in Deliverable(a, i) :
        acc' = [acc EXCEPT ![a] = Quiet(BallotAccepted(@, i, vote, proposed.retry))]
  /\ UNCHANGED <<proposed, accs, vr, cm, pm, tt, conn, cr, vc, bbe, ts, qt, vm, sm, dm, ptc, va>>

ATxnLocallyComplete(a, rm) ==
  /\ Live(a)
  /\ acc' = [acc EXCEPT ![a] = Quiet(TxnLocallyCompleteReceived(@, rm))]
  /\ UNCHANGED <<proposed, accs, vr, cm, pm, tt, conn, cr, vc, bbe, ts, qt, vm, sm, dm, ptc, va>>

ATxnSubmissionComplete(a) ==
  /\ Live(a)
  /\ acc' = [acc EXCEPT ![a] = Quiet(TxnSubmissionCompleteReceived(@, TxnSubmitter))]
  /\ UNCHANGED <<proposed, accs, vr, cm, pm, tt, conn, cr, vc, bbe, ts, qt, vm, sm, dm, ptc, va>>

ATopologyChanged(a, removed) ==
  /\ Live(a)
  /\ acc[a].rmsRemoved \subseteq removed /\ removed # acc[a].rmsRemoved
  /\ acc' = [acc EXCEPT ![a] = Quiet(AcceptorTopologyChanged(@, a, removed))]
  /\ UNCHANGED <<proposed, accs, vr, cm, pm, tt, conn, cr, vc, bbe, ts, qt, vm, sm, dm, ptc, va>>

AKVExecute(a) ==
  /\ a \in accs /\ acc[a].kv # <<>>
  /\ acc' = [acc EXCEPT ![a] = Quiet(kvExecute(@))]
  /\ UNCHANGED <<proposed, accs, vr, cm, pm, tt, conn, cr, vc, bbe, ts, qt, vm, sm, dm, ptc, va>>

AExeRun(a) ==
  /\ a \in accs
  /\ \E cb \in acc[a].exe : acc' = [acc EXCEPT ![a] = Quiet(exeRun(@, cb))]
  /\ UNCHANGED <<proposed, accs, vr, cm, pm, tt, conn, cr, vc, bbe, ts, qt, vm, sm, dm, ptc, va>>

ACMProcess(a) ==
  /\ a \in accs /\ acc[a].cmQueue # <<>>
  /\ acc' = [acc EXCEPT ![a] = cmProcess(@)]
  /\ UNCHANGED <<proposed, accs, vr, cm, pm, tt, conn, cr, vc, bbe, ts, qt, vm, sm, dm, ptc, va>>

AConnectionLost(a, rm) ==
  /\ a \in accs /\ rm # a /\ acc[a].conns[rm] # 0
  /\ acc' = [acc EXCEPT ![a] = cmConnectionLost(@, rm)]
  /\ UNCHANGED <<proposed, accs, vr, cm, pm, tt, conn, cr, vc, bbe, ts, qt, vm, sm, dm, ptc, va>>

AConnectionEstablished(a, rm) ==
  /\ a \in accs /\ rm # a /\ acc[a].conns[rm] = 0
  /\ \E bootCount \in {1} \cup {b \in {2} : rm = TxnSubmitter} :
        acc' = [acc EXCEPT ![a] = cmConnectionEstablished(@, rm, bootCount)]
  /\ UNCHANGED <<proposed, accs, vr, cm, pm, tt, conn, cr, vc, bbe, ts, qt, vm, sm, dm, ptc, va>>

(***************************************************************************)
(* VAR WRITE PROTOCOL (src/txnengine/var.go, src/txnengine/varmanager.go)  *)
(***************************************************************************)

\* Bounds: the number of frames (committed writes) the var receives, and the
\* number of times the var is created or restored from disk.
MaxFrames == 4
MaxVarObjects == 3

\* A txn id, and the frame of a committed write.  NewVar's first frame has
\* no txn id.
TxnId(n) == [txn |-> n]

NewFrame(frameTxnId) == [frameTxnId |-> frameTxnId]

\* The subscribers a subscription txn can attach to the var.
Subscribers == {[sub |-> 1]}

\* NewSubscriptions: no subscriber.
NewSubscriptions == {}

\* NewVar / newVar
NewVar(obj) ==
  [ obj             |-> obj,
    curFrame        |-> NewFrame(Nil),
    curFrameOnDisk  |-> Nil,
    writeInProgress |-> Nil,
    subscriptions   |-> NewSubscriptions ]

\* VarFromData
VarFromData(data, obj) ==
  LET f == NewFrame(data.writeTxnId)
  IN [ obj             |-> obj,
       curFrame        |-> f,
       curFrameOnDisk  |-> f,
       writeInProgress |-> Nil,
       subscriptions   |-> NewSubscriptions ]

\* NewVarManager with the node-local KV store (Vars and Txns tables, queue of
\* read-write transactions) and the executor's queue of callbacks.
NewVarManager ==
  [ active  |-> Nil,
    nextObj |-> 1,
    nextTxn |-> 1,
    Vars    |-> Nil,
    Txns    |-> {},
    kv      |-> <<>>,
    exe     |-> {},
    lastTxn |-> Nil ]

\* db.WriteTxnToDisk / db.DeleteTxnFromDisk on the Txns table.
WriteTxnToDisk(txns, txnId) == txns \cup {txnId}

DeleteTxnFromDisk(txns, txnId) == txns \ {txnId}

\* maybeWriteFrame that deletes the txn of the var's current frame instead of
\* the frame on disk.
maybeWriteFrameDeleteCurrent(s, f) ==
  LET v == s.active
  IN IF v.writeInProgress # Nil
     THEN [s EXCEPT !.active.writeInProgress = [kind |-> "write", f |-> f]]
     ELSE [s EXCEPT !.active.writeInProgress = [kind |-> "makeInactive"],
                    !.kv = Append(@, [f |-> f,
                                      curFrameOnDisk |-> v.curFrame,
                                      obj |-> v.obj])]

\* maybeWriteFrame that schedules a read-write transaction at every call, a
\* write in progress or not.
maybeWriteFrameUncoalesced(s, f) ==
  LET v == s.active
  IN [s EXCEPT !.active.writeInProgress = [kind |-> "makeInactive"],
               !.kv = Append(@, [f |-> f,
                                 curFrameOnDisk |-> v.curFrameOnDisk,
                                 obj |-> v.obj])]

\* Var.maybeWriteFrame: coalesce with a write in progress, or schedule the
\* read-write transaction, capturing the frame now on disk.
maybeWriteFrame(s, f) ==
  LET v == s.active
  IN IF v.writeInProgress # Nil
     THEN [s EXCEPT !.active.writeInProgress = [kind |-> "write", f |-> f]]
     ELSE [s EXCEPT !.active.writeInProgress = [kind |-> "makeInactive"],
                    !.kv = Append(@, [f |-> f,
                                      curFrameOnDisk |-> v.curFrameOnDisk,
                                      obj |-> v.obj])]

\* Var.SetCurFrame
SetCurFrame(s, f) == maybeWriteFrame([s EXCEPT !.active.curFrame = f], f)

\* The read-write transaction maybeWriteFrame submits, run by the KV worker
\* as one atomic transaction; its future then enqueues the callback.
writeFrameTxn(s, t) ==
  LET txns1 == WriteTxnToDisk(s.Txns, t.f.frameTxnId)
      txns2 == IF t.curFrameOnDisk # Nil
               THEN DeleteTxnFromDisk(txns1, t.curFrameOnDisk.frameTxnId)
               ELSE txns1
  IN [s EXCEPT !.Txns = txns2,
               !.Vars = [writeTxnId |-> t.f.frameTxnId],
               !.exe = @ \cup {[f |-> t.f, obj |-> t.obj]},
               !.lastTxn = t]

\* Subscriptions.Subscribe: a subscriber is attached to the var.
Subscribe(s, subId) == [s EXCEPT !.active.subscriptions = @ \cup {subId}]

\* Var.isIdle, with the idleness of the current frame given: the frame is
\* empty of pending work.
isIdle(v, frameIdle) == v.writeInProgress = Nil /\ frameIdle

\* Var.maybeMakeInactive with VarManager.SetInactive
maybeMakeInactive(s, frameIdle) ==
  IF isIdle(s.active, frameIdle) THEN [s EXCEPT !.active = Nil] ELSE s

\* VarManager.find with createIfMissing of ApplyToVar: the active var, or
\* the var restored from the Vars table, or a new var.
find(s, createIfMissing) ==
  IF s.active # Nil THEN s
  ELSE IF s.Vars # Nil
       THEN [s EXCEPT !.active = VarFromData(s.Vars, s.nextObj), !.nextObj = @ + 1]
       ELSE IF createIfMissing
            THEN [s EXCEPT !.active = NewVar(s.nextObj), !.nextObj = @ + 1]
            ELSE s

\* The callback of a completed write, run through Var.applyToSelf.
writtenToDisk(s, cb, frameIdle) ==
  LET s1 == find([s EXCEPT !.exe = @ \ {cb}], FALSE)
  IN IF s1.active = Nil THEN s1
     ELSE IF s1.active.obj # cb.obj THEN maybeMakeInactive(s1, frameIdle)
     ELSE LET wip == s1.active.writeInProgress
              s2 == [s1 EXCEPT !.active.curFrameOnDisk = cb.f,
                               !.active.writeInProgress = Nil]
          IN IF wip.kind = "write"
             THEN maybeWriteFrame(s2, wip.f)
             ELSE maybeMakeInactive(s2, frameIdle)

\* ---- actions ---------------------------------------------------------------

\* VarManager.ApplyToVar for an action on the var: restores or creates it.
VApplyToVar ==
  /\ vr.active = Nil
  /\ vr.nextObj <= MaxVarObjects
  /\ vr' = find(vr, TRUE)
  /\ UNCHANGED <<acc, proposed, accs, cm, pm, tt, conn, cr, vc, bbe, ts, qt, vm, sm, dm, ptc, va>>

\* A write commits on the var: its new frame becomes the current frame.
VSetCurFrame ==
  /\ vr.active # Nil
  /\ vr.nextTxn <= MaxFrames
  /\ vr' = SetCurFrame([vr EXCEPT !.nextTxn = @ + 1], NewFrame(TxnId(vr.nextTxn)))
  /\ UNCHANGED <<acc, proposed, accs, cm, pm, tt, conn, cr, vc, bbe, ts, qt, vm, sm, dm, ptc, va>>

VKVExecute ==
  /\ vr.kv # <<>>
  /\ vr' = writeFrameTxn([vr EXCEPT !.kv = Tail(@)], Head(vr.kv))
  /\ UNCHANGED <<acc, proposed, accs, cm, pm, tt, conn, cr, vc, bbe, ts, qt, vm, sm, dm, ptc, va>>

VWrittenToDisk ==
  /\ \E cb \in vr.exe, frameIdle \in BOOLEAN : vr' = writtenToDisk(vr, cb, frameIdle)
  /\ UNCHANGED <<acc, proposed, accs, cm, pm, tt, conn, cr, vc, bbe, ts, qt, vm, sm, dm, ptc, va>>

\* An outcome is received for an action the frame has not learnt
\* (ReceiveTxnOutcome): the var checks whether it can become inactive.
VMaybeMakeInactive ==
  /\ vr.active # Nil
  /\ \E frameIdle \in BOOLEAN : vr' = maybeMakeInactive(vr, frameIdle)
  /\ UNCHANGED <<acc, proposed, accs, cm, pm, tt, conn, cr, vc, bbe, ts, qt, vm, sm, dm, ptc, va>>

\* A subscription txn commits on the var.
VSubscribe ==
  /\ vr.active # Nil
  /\ \E subId \in Subscribers \ vr.active.subscriptions : vr' = Subscribe(vr, subId)
  /\ UNCHANGED <<acc, proposed, accs, cm, pm, tt, conn, cr, vc, bbe, ts, qt, vm, sm, dm, ptc, va>>

VarNext ==
  \/ VApplyToVar
  \/ VSubscribe
  \/ VSetCurFrame
  \/ VKVExecute
  \/ VWrittenToDisk
  \/ VMaybeMakeInactive

(***************************************************************************)
(* CONNECTION MANAGER (src/network/protocols.go)                           *)
(***************************************************************************)

\* This node.
RMId == 1
LocalHost == "h1"

\* The cd of the local connection, made by NewConnectionManager; 0 is nil.
LocalCd == 1

\* The Connection objects of the run besides the local one: their remote
\* host, the RMId the peer presents in the handshake, and whether this node
\* dials them (setDesiredServers) or the peer does.  Host h3 can be dialed
\* twice, by two Connection objects.
ConnTable ==
  [c \in 2..6 |->
     CASE c = 2 -> [host |-> "h2", rmId |-> 2, dialer |-> TRUE]
       [] c = 3 -> [host |-> "h2", rmId |-> 2, dialer |-> FALSE]
       [] c = 4 -> [host |-> "h3", rmId |-> 2, dialer |-> FALSE]
       [] c = 5 -> [host |-> "h3", rmId |-> 3, dialer |-> TRUE]
       [] c = 6 -> [host |-> "h3", rmId |-> 3, dialer |-> TRUE]]

Conns == DOMAIN ConnTable

AllHosts == {"", "h1", "h2", "h3"}
AllRMs == {1, 2, 3}

\* The topologies the transmogrifier installs, in increasing version.
Topologies ==
  << [Version |-> 1, ClusterUUId |-> 0, F |-> 0,
      Hosts |-> <<"h1">>, RMs |-> <<1>>],
     [Version |-> 2, ClusterUUId |-> 7, F |-> 1,
      Hosts |-> <<"h1", "h2", "h3">>, RMs |-> <<1, 2, 3>>],
     [Version |-> 3, ClusterUUId |-> 7, F |-> 0,
      Hosts |-> <<"h1", "h2">>, RMs |-> <<1, 2>>],
     [Version |-> 4, ClusterUUId |-> 7, F |-> 1,
      Hosts |-> <<"h1", "h2", "h3">>, RMs |-> <<1, 2, 3>>] >>

\* servers holds no slice for a host (a slice in the map is never empty).
NotFound == <<>>

\* Client connections by connNumber; 0 is the local connection.
ClientConnNumbers == {0, 1}

\* NewConnectionManager: the manager after construction, with the state of
\* every Connection object (established and shut are the fields of the cd for
\* it; phase is where the connection itself is).
NewConnectionManager ==
  [ localHost      |-> "",
    topology       |-> Nil,
    desired        |-> {},
    servers        |-> [h \in AllHosts |-> IF h = "" THEN <<LocalCd>> ELSE NotFound],
    rmToServer     |-> [rm \in AllRMs |-> IF rm = RMId THEN LocalCd ELSE 0],
    flushed        |-> {},
    flushedNil     |-> FALSE,
    clusterUUId    |-> 0,
    connCountToClient |-> {},
    conn           |-> [c \in Conns |-> [established |-> FALSE, shut |-> FALSE, phase |-> "init"]],
    selfFlush      |-> FALSE,
    notes          |-> <<>>,
    client         |-> Nil ]

\* cm.flushedServers while it is not nil: the RMs whose Flushed has been
\* handled (flushed goes on recording them once flushedServers is nil).
flushedServers(m) == m.flushed

cdHost(m, cd) == IF cd = LocalCd THEN m.localHost ELSE ConnTable[cd].host

cdEstablished(m, cd) == IF cd = LocalCd THEN TRUE ELSE m.conn[cd].established

\* cd.Shutdown()
Shutdown(m, cd) == [m EXCEPT !.conn[cd].shut = TRUE]

\* serverConnSubscribers.ServerConnEstablished / ServerConnLost: what the
\* subscribers are told, in order.
ServerConnEstablished(m, rmId, cd) ==
  [m EXCEPT !.notes = Append(@, [type |-> "ConnectionEstablished", rmId |-> rmId, cd |-> cd])]

ServerConnLost(m, rmId) ==
  [m EXCEPT !.notes = Append(@, [type |-> "ConnectionLost", rmId |-> rmId, cd |-> 0])]

\* The indices serverEstablished looks for in servers[host].
foundIdxOf(cds, c) ==
  LET at == {idx \in 1..Len(cds) : cds[idx] = c}
  IN IF at = {} THEN 0 ELSE CHOOSE idx \in at : \A j \in at : idx <= j

holeIdxOf(cds) ==
  LET holes == {idx \in 2..Len(cds) : cds[idx] = 0}
  IN IF holes = {} THEN 0 ELSE CHOOSE idx \in holes : \A j \in holes : idx <= j

\* serverEstablished that lets a newcomer take over the registration.
serverEstablishedReplacing(m, c) ==
  LET rmId == ConnTable[c].rmId
      host == ConnTable[c].host
      m1 == ServerConnEstablished([m EXCEPT !.rmToServer[rmId] = c,
                                            !.conn[c].established = TRUE], rmId, c)
      cds == m.servers[host]
  IN IF rmId = RMId THEN Shutdown(m, c)
     ELSE IF cds = NotFound THEN [m1 EXCEPT !.servers[host] = <<0, c>>]
     ELSE IF foundIdxOf(cds, c) # 0 THEN m1
     ELSE [m1 EXCEPT !.servers[host] = Append(cds, c)]

\* ConnectionManager.serverEstablished
serverEstablished(m, c) ==
  LET rmId == ConnTable[c].rmId
      host == ConnTable[c].host
      cd == m.rmToServer[rmId]
      found == cd # 0
  IN IF rmId = RMId THEN Shutdown(m, c)
     ELSE IF found /\ host # cdHost(m, cd) THEN Shutdown(Shutdown(m, cd), c)
     ELSE
       LET m0 == [m EXCEPT !.conn[c].established = TRUE]
           m1 == IF ~found
                 THEN ServerConnEstablished([m0 EXCEPT !.rmToServer[rmId] = c], rmId, c)
                 ELSE m0
           cds == m.servers[host]
           foundIdx == foundIdxOf(cds, c)
           holeIdx == holeIdxOf(cds)
       IN IF cds = NotFound THEN [m1 EXCEPT !.servers[host] = <<0, c>>]
          ELSE IF foundIdx = 0 /\ holeIdx = 0 THEN [m1 EXCEPT !.servers[host] = Append(cds, c)]
          ELSE IF foundIdx = 0 THEN [m1 EXCEPT !.servers[host][holeIdx] = c]
          ELSE [m1 EXCEPT !.servers[host][foundIdx] = c]

\* The first established cd of servers[host], the backup serverLost promotes.
firstEstablished(m, cds) ==
  LET at == {idx \in 1..Len(cds) : cds[idx] # 0 /\ cdEstablished(m, cds[idx])}
  IN IF at = {} THEN 0 ELSE cds[CHOOSE idx \in at : \A j \in at : idx <= j]

\* ConnectionManager.serverLost
serverLost(m, c, connLostRestarting) ==
  LET rmId == ConnTable[c].rmId
      host == ConnTable[c].host
      cds == m.servers[host]
      restarting == connLostRestarting /\ host \in m.desired
      m1 == IF cds = NotFound THEN m
            ELSE IF restarting
            THEN IF foundIdxOf(cds, c) # 0 THEN [m EXCEPT !.conn[c].established = FALSE] ELSE m
            ELSE LET cds1 == [idx \in 1..Len(cds) |-> IF cds[idx] = c THEN 0 ELSE cds[idx]]
                     ma == IF foundIdxOf(cds, c) # 0 /\ connLostRestarting THEN Shutdown(m, c) ELSE m
                 IN IF \A idx \in 1..Len(cds1) : cds1[idx] = 0
                    THEN [ma EXCEPT !.servers[host] = NotFound]
                    ELSE [ma EXCEPT !.servers[host] = cds1]
  IN IF m1.rmToServer[rmId] = c
     THEN LET m2 == ServerConnLost([m1 EXCEPT !.conn[c].established = FALSE,
                                              !.rmToServer[rmId] = 0], rmId)
              cds2 == m2.servers[host]
              backup == IF cds2 = NotFound THEN 0 ELSE firstEstablished(m2, cds2)
          IN IF backup # 0
             THEN ServerConnEstablished([m2 EXCEPT !.rmToServer[rmId] = backup],
                                        ConnTable[backup].rmId, backup)
             ELSE m2
     ELSE m1

\* checkFlushed that opens the gate as soon as anything has flushed.
checkFlushedAny(m, topology) ==
  IF ~m.flushedNil /\ topology # Nil /\ flushedServers(m) # {}
  THEN [m EXCEPT !.flushedNil = TRUE]
  ELSE m

\* ConnectionManager.checkFlushed
checkFlushed(m, topology) ==
  IF ~m.flushedNil /\ topology # Nil
  THEN LET found == {i \in 1..Len(topology.RMs) : topology.RMs[i] \in flushedServers(m)}
           requiredFlushed == Len(topology.Hosts) - topology.F - Cardinality(found)
       IN IF requiredFlushed <= 0
          THEN [m EXCEPT !.flushedNil = TRUE]
          ELSE m
  ELSE m

\* ConnectionManager.TopologyChanged, the manager's own topology subscriber
TopologyChanged(m, topology) == checkFlushed(m, topology)

\* ConnectionManager.setTopology
setTopology(m, topology) ==
  LET m1 == TopologyChanged([m EXCEPT !.topology = topology], topology)
  IN IF m1.clusterUUId = 0 /\ topology.ClusterUUId # 0
     THEN LET m2 == ServerConnLost([m1 EXCEPT !.rmToServer[RMId] = 0], RMId)
              m3 == [m2 EXCEPT !.clusterUUId = topology.ClusterUUId,
                               !.rmToServer[RMId] = LocalCd,
                               !.selfFlush = TRUE]
          IN ServerConnEstablished(m3, RMId, LocalCd)
     ELSE m1

\* A dialer that runs: it has been created and neither gave up nor was shut
\* down.
LiveDialer(m, c) ==
  ConnTable[c].dialer /\ m.conn[c].phase \in {"dialing", "up", "down"} /\ ~m.conn[c].shut

\* The Connection objects NewConnectionTCPTLSCapnpDialer can return for
\* host: those never used, those that gave up, and those shut down before
\* they reported anything.
FreshDialers(m, host) ==
  {d \in Conns :
     /\ ConnTable[d].dialer /\ ConnTable[d].host = host
     /\ \/ m.conn[d].phase \in {"init", "dead"}
        \/ m.conn[d].shut /\ m.conn[d].phase \in {"dialing", "down"}}

\* Whether setDesiredServers creates a dialer for host.
NeedsDialer(m, host) ==
  IF m.servers[host] = NotFound THEN TRUE ELSE m.servers[host][1] = 0

\* The hosts of setDesiredServers' second loop, one at a time: a dialer is
\* started for every desired host without one.
RECURSIVE startDialers(_, _)
startDialers(m, hosts) ==
  IF hosts = {} THEN m
  ELSE LET host == CHOOSE h \in hosts : TRUE
           cds == m.servers[host]
           c == CHOOSE d \in FreshDialers(m, host) : \A e \in FreshDialers(m, host) : d <= e
           fresh == [established |-> FALSE, shut |-> FALSE, phase |-> "dialing"]
           m1 == IF cds = NotFound
                 THEN [m EXCEPT !.servers[host] = <<c>>, !.conn[c] = fresh]
                 ELSE IF cds[1] = 0
                      THEN [m EXCEPT !.servers[host][1] = c, !.conn[c] = fresh]
                      ELSE m
       IN startDialers(m1, hosts \ {host})

\* setDesiredServers' last loop: hosts no longer desired are forgotten and
\* their connections that are not established are shut down.
RECURSIVE dropUndesired(_, _)
dropUndesired(m, hosts) ==
  IF hosts = {} THEN m
  ELSE LET host == CHOOSE h \in hosts : TRUE
           cds == m.servers[host]
           toShut == {cds[idx] : idx \in {i \in 1..Len(cds) :
                                            cds[i] # 0 /\ ~cdEstablished(m, cds[i])}}
           m1 == [m EXCEPT !.servers[host] = NotFound,
                           !.conn = [c \in Conns |-> IF c \in toShut
                                                     THEN [@[c] EXCEPT !.shut = TRUE]
                                                     ELSE @[c]]]
       IN dropUndesired(m1, hosts \ {host})

\* ConnectionManager.setDesiredServers
setDesiredServers(m, localHost, remote) ==
  LET m0 == [m EXCEPT !.desired = remote]
      m1 == IF m0.localHost # localHost
            THEN LET ma == ServerConnLost([m0 EXCEPT !.rmToServer[RMId] = 0,
                                                    !.servers[m0.localHost] = NotFound], RMId)
                     mb == [ma EXCEPT !.localHost = localHost,
                                      !.rmToServer[RMId] = LocalCd,
                                      !.servers[localHost] = <<LocalCd>>,
                                      !.selfFlush = TRUE]
                 IN ServerConnEstablished(mb, RMId, LocalCd)
            ELSE m0
      m2 == startDialers(m1, remote)
  IN dropUndesired(m2, {h \in AllHosts : h # m2.localHost /\ m2.servers[h] # NotFound /\ h \notin remote})

\* ConnectionManager.serverFlushed
serverFlushed(m, rmId) ==
  IF ~m.flushedNil
  THEN checkFlushed([m EXCEPT !.flushed = @ \cup {rmId}], m.topology)
  ELSE [m EXCEPT !.flushed = @ \cup {rmId}]

\* ConnectionManager.clientEstablished: the client is registered and gets the
\* server map (client), or gets nil and nothing changes.
clientEstablished(m, connNumber) ==
  IF m.flushedNil \/ connNumber = 0
  THEN [m EXCEPT !.connCountToClient = @ \cup {connNumber},
                 !.client = [connNumber |-> connNumber, servers |-> m.rmToServer]]
  ELSE m

\* ---- actions ---------------------------------------------------------------

\* What a handler leaves behind is what it told the subscribers and the
\* client.
Handling(m) == [m EXCEPT !.notes = <<>>, !.client = Nil]

\* A connection completes its handshake and reports ServerEstablished.
CMServerEstablished(c) ==
  /\ \/ ConnTable[c].dialer /\ cm.conn[c].phase \in {"dialing", "down"}
     \/ ~ConnTable[c].dialer /\ cm.conn[c].phase = "init"
  /\ cm' = serverEstablished([Handling(cm) EXCEPT !.conn[c].phase = "up"], c)
  /\ UNCHANGED <<acc, proposed, accs, vr, pm, tt, conn, cr, vc, bbe, ts, qt, vm, sm, dm, ptc, va>>

\* A connection reports ServerLost; only a dialer that has not been shut down
\* restarts.
CMServerLost(c, restarting) ==
  /\ cm.conn[c].phase = "up"
  /\ restarting => (ConnTable[c].dialer /\ ~cm.conn[c].shut)
  /\ cm' = serverLost([Handling(cm) EXCEPT
                         !.conn[c].phase = IF restarting THEN "down" ELSE "dead"],
                      c, restarting)
  /\ UNCHANGED <<acc, proposed, accs, vr, pm, tt, conn, cr, vc, bbe, ts, qt, vm, sm, dm, ptc, va>>

\* The Flushed marker of a connected peer arrives (DispatchMessage), or the
\* flush callback of the local cd has run.
CMServerFlushed(rmId) ==
  /\ IF rmId = RMId THEN cm.selfFlush
     ELSE \E c \in Conns : ConnTable[c].rmId = rmId /\ cm.conn[c].phase = "up"
  /\ cm' = [serverFlushed(Handling(cm), rmId) EXCEPT
              !.selfFlush = IF rmId = RMId THEN FALSE ELSE @]
  /\ UNCHANGED <<acc, proposed, accs, vr, pm, tt, conn, cr, vc, bbe, ts, qt, vm, sm, dm, ptc, va>>

CMClientEstablished(connNumber) ==
  /\ connNumber \notin cm.connCountToClient
  /\ cm' = clientEstablished(Handling(cm), connNumber)
  /\ UNCHANGED <<acc, proposed, accs, vr, pm, tt, conn, cr, vc, bbe, ts, qt, vm, sm, dm, ptc, va>>

\* The transmogrifier installs the next topology: the SetTopology message.
\* The run has a Connection object left for every dialer to create.
CMSetTopology(t) ==
  /\ IF cm.topology = Nil THEN TRUE ELSE cm.topology.Version < Topologies[t].Version
  /\ \A i \in 1..Len(Topologies[t].Hosts) :
       LET host == Topologies[t].Hosts[i]
       IN host # LocalHost /\ NeedsDialer(cm, host) => FreshDialers(cm, host) # {}
  /\ LET topology == Topologies[t]
         remote == {topology.Hosts[i] : i \in 1..Len(topology.Hosts)} \ {LocalHost}
     IN cm' = setDesiredServers(setTopology(Handling(cm), topology), LocalHost, remote)
  /\ UNCHANGED <<acc, proposed, accs, vr, pm, tt, conn, cr, vc, bbe, ts, qt, vm, sm, dm, ptc, va>>

\* The connection registry: connections come and go while topologies change.
CMNext ==
  \/ \E c \in Conns : CMServerEstablished(c)
  \/ \E c \in Conns, restarting \in BOOLEAN : CMServerLost(c, restarting)
  \/ \E t \in 1..Len(Topologies) : CMSetTopology(t)

\* Client gating: the dialled connections, the Flushed markers, the clients
\* and the topologies.
GateConns == {c \in Conns : ConnTable[c].dialer}

CMGateNext ==
  \/ \E c \in GateConns : CMServerEstablished(c)
  \/ \E c \in GateConns, restarting \in BOOLEAN : CMServerLost(c, restarting)
  \/ \E rmId \in AllRMs : CMServerFlushed(rmId)
  \/ \E connNumber \in ClientConnNumbers : CMClientEstablished(connNumber)
  \/ \E t \in 1..Len(Topologies) : CMSetTopology(t)

(***************************************************************************)
(* PROPOSER MANAGER (src/paxos/proposermanager.go)                         *)
(***************************************************************************)

\* This node's current incarnation; allocations made for the previous
\* incarnation carry BootCount - 1.
BootCount == 2
TwoFInc == 3

\* The txns the network may deliver, and the RMs that deliver them.
PMTxnIds == {1, 2}
PMSenders == {2, 3}

\* The vars of a txn's actions, and the action indices allocated to this
\* node in each txn.
PMActions == <<"x", "y", "z">>
PMActionIndices == [t \in PMTxnIds |-> IF t = 1 THEN <<0>> ELSE <<0, 2>>]

\* What varies between txns: the topology version they were submitted under,
\* whether they are topology txns, and the active field of this node's
\* allocation (0 for a passive learner, otherwise the boot count the txn was
\* prepared for).
PMTxnShapes ==
  [topologyVersion : {1, 2}, isTopology : BOOLEAN, active : {0, BootCount - 1, BootCount}]

\* The Txn message (capnp/transaction.capnp).  A txn is only ever delivered
\* to RMs that it has an allocation for, so this node's allocation is present.
PMTxn(t, shape) ==
  [id |-> t,
   isTopology |-> shape.isTopology,
   topologyVersion |-> shape.topologyVersion,
   twoFInc |-> TwoFInc,
   actions |-> PMActions,
   allocations |-> << [rmId |-> 2, actionIndices |-> <<1>>, active |-> 1],
                      [rmId |-> RMId, actionIndices |-> PMActionIndices[t],
                       active |-> shape.active] >>]

\* The topologies the proposer manager is told of: version 1, version 1 with
\* a change to version 2 under way, and version 2 with RM 3 removed.
PMTopologies ==
  << [Version |-> 1, NextConfiguration |-> Nil, RMsRemoved |-> {}],
     [Version |-> 1, NextConfiguration |-> [Version |-> 2], RMsRemoved |-> {}],
     [Version |-> 2, NextConfiguration |-> Nil, RMsRemoved |-> {3}] >>

\* The keys of pm.proposals held for a txn: txnId || rmId of the instance.
InstId(txnId, rmId) == <<txnId, rmId>>
PMInstIds == {InstId(t, RMId) : t \in PMTxnIds}

\* proposers and proposals map to Nil where the Go maps have no entry.
\* onDisk is TRUE while a done callback is held; done is what the last
\* callback was called with; oneShot is the txn of the last one-shot TLC.
NewProposerManager ==
  [RMId |-> RMId,
   BootCount |-> BootCount,
   proposals |-> [i \in PMInstIds |-> Nil],
   proposers |-> [t \in PMTxnIds |-> Nil],
   topology |-> Nil,
   onDisk |-> FALSE,
   done |-> "none",
   oneShot |-> 0,
   txns |-> [t \in PMTxnIds |->
               PMTxn(t, [topologyVersion |-> 1, isTopology |-> FALSE, active |-> BootCount])]]

AllocForRMId(txn, rmId) ==
  LET idxs == {idx \in 1..Len(txn.allocations) : txn.allocations[idx].rmId = rmId}
  IN IF idxs = {} THEN Nil
     ELSE txn.allocations[CHOOSE idx \in idxs : \A other \in idxs : idx <= other]

\* Mutation of MakeAbortBallots: a single ballot for the whole allocation.
MakeAbortBallotsFirstOnly(txn, alloc) ==
  << [VarUUId |-> txn.actions[alloc.actionIndices[1] + 1],
      Vote |-> "AbortDeadlock", Clock |-> Nil] >>

MakeAbortBallots(txn, alloc) ==
  [idx \in 1..Len(alloc.actionIndices) |->
     [VarUUId |-> txn.actions[alloc.actionIndices[idx] + 1],
      Vote |-> "AbortDeadlock", Clock |-> Nil]]

NewPaxosProposals(m, txn, twoFInc, ballots, rmId, skipPhase1) ==
  LET instId == InstId(txn.id, rmId)
  IN IF m.proposals[instId] = Nil
     THEN [m EXCEPT !.proposals[instId] =
             [txnId |-> txn.id, twoFInc |-> twoFInc, ballots |-> ballots,
              instanceRMId |-> rmId, skipPhase1 |-> skipPhase1]]
     ELSE m

createProposerStart(m, txn, mode) ==
  [m EXCEPT !.proposers[txn.id] = [mode |-> mode, tlcDone |-> FALSE]]

checkAllDisk(m) ==
  IF m.onDisk
  THEN IF \E t \in PMTxnIds : /\ m.proposers[t] # Nil
                              /\ ~(m.proposers[t].tlcDone \/ m.txns[t].isTopology)
       THEN m
       ELSE [m EXCEPT !.onDisk = FALSE, !.done = "true"]
  ELSE m

\* Mutation of accept: the sender's removal from the topology is not looked at.
acceptRemovedSender(m, sender, txn) ==
  IF m.topology # Nil
  THEN IF m.topology.Version # txn.topologyVersion THEN FALSE
       ELSE IF m.topology.NextConfiguration # Nil /\ ~txn.isTopology THEN FALSE
       ELSE LET alloc == AllocForRMId(txn, m.RMId)
            IN IF alloc = Nil THEN FALSE ELSE alloc.active = m.BootCount
  ELSE TRUE

\* The admission decision of TxnReceived.
accept(m, sender, txn) ==
  IF m.topology # Nil
  THEN IF m.topology.Version # txn.topologyVersion THEN FALSE
       ELSE IF m.topology.NextConfiguration # Nil /\ ~txn.isTopology THEN FALSE
       ELSE IF sender \in m.topology.RMsRemoved THEN FALSE
       ELSE LET alloc == AllocForRMId(txn, m.RMId)
            IN IF alloc = Nil THEN FALSE ELSE alloc.active = m.BootCount
  ELSE TRUE

TxnReceived(m, sender, txn) ==
  IF m.proposers[txn.id] # Nil THEN m
  ELSE IF accept(m, sender, txn)
       THEN createProposerStart(m, txn, "ActiveVoter")
       ELSE LET alloc == AllocForRMId(txn, m.RMId)
                ballots == MakeAbortBallots(txn, alloc)
            IN createProposerStart(
                 NewPaxosProposals(m, txn, txn.twoFInc, ballots, m.RMId, FALSE),
                 txn, "ActiveLearner")

\* TwoBTxnVotesReceived that makes a passive learner for an abort too.
TwoBTxnVotesReceivedLearnsAbort(m, sender, txn, outcomeIsCommit) ==
  IF m.proposers[txn.id] # Nil THEN checkAllDisk(m)
  ELSE LET alloc == AllocForRMId(txn, m.RMId)
       IN IF alloc.active # 0
          THEN checkAllDisk(createProposerStart(
                 NewPaxosProposals(m, txn, txn.twoFInc, MakeAbortBallots(txn, alloc),
                                   m.RMId, FALSE),
                 txn, "ActiveLearner"))
          ELSE checkAllDisk(createProposerStart(m, txn, "PassiveLearner"))

\* The outcome case of TwoBTxnVotesReceived.
TwoBTxnVotesReceived(m, sender, txn, outcomeIsCommit) ==
  IF m.proposers[txn.id] # Nil THEN checkAllDisk(m)
  ELSE LET alloc == AllocForRMId(txn, m.RMId)
       IN IF alloc.active # 0
          THEN checkAllDisk(createProposerStart(
                 NewPaxosProposals(m, txn, txn.twoFInc, MakeAbortBallots(txn, alloc),
                                   m.RMId, FALSE),
                 txn, "ActiveLearner"))
          ELSE IF outcomeIsCommit
               THEN checkAllDisk(createProposerStart(m, txn, "PassiveLearner"))
               ELSE [m EXCEPT !.oneShot = txn.id]

\* What the outcome case of TwoBTxnVotesReceived hands on: the outcome to
\* the txn's proposer (BallotOutcomeReceived), or a TxnLocallyComplete to
\* the sender through a one-shot sender.
twoBOutcomeCalls(m, sender, txn, outcomeIsCommit) ==
  LET given == [call |-> "BallotOutcomeReceived", proposer |-> txn.id,
                sender |-> sender, outcomeIsCommit |-> outcomeIsCommit]
  IN IF m.proposers[txn.id] # Nil THEN <<given>>
     ELSE IF AllocForRMId(txn, m.RMId).active # 0 THEN <<given>>
     ELSE IF outcomeIsCommit THEN <<given>>
     ELSE << [call |-> "NewOneShotSender", msg |-> "TxnLocallyComplete",
              txnId |-> txn.id, to |-> sender] >>

TxnLocallyComplete(m, txnId) ==
  checkAllDisk([m EXCEPT !.proposers[txnId].tlcDone = TRUE])

TxnFinished(m, txnId) ==
  [m EXCEPT !.proposers[txnId] = Nil]

FinishProposals(m, txnId) ==
  LET instId == InstId(txnId, m.RMId)
  IN IF m.proposals[instId] # Nil
     THEN [m EXCEPT !.proposals[instId] = Nil]
     ELSE m

pmTopologyChangedExec(m, topology) ==
  LET dropped == IF m.onDisk THEN [m EXCEPT !.onDisk = FALSE, !.done = "false"] ELSE m
      changed == [dropped EXCEPT !.topology = topology]
  IN IF topology.NextConfiguration = Nil
     THEN [changed EXCEPT !.done = "true"]
     ELSE checkAllDisk([changed EXCEPT !.onDisk = TRUE])

\* ---- actions ---------------------------------------------------------------

PMTxnReceived(t, sender) ==
  /\ pm' = TxnReceived(pm, sender, pm.txns[t])
  /\ UNCHANGED <<acc, proposed, accs, vr, cm, tt, conn, cr, vc, bbe, ts, qt, vm, sm, dm, ptc, va>>

PMTwoBTxnVotesReceived(t, sender, outcomeIsCommit) ==
  /\ pm' = TwoBTxnVotesReceived(pm, sender, pm.txns[t], outcomeIsCommit)
  /\ UNCHANGED <<acc, proposed, accs, vr, cm, tt, conn, cr, vc, bbe, ts, qt, vm, sm, dm, ptc, va>>

\* The proposer of txn t reports that it is locally complete.
PMTxnLocallyComplete(t) ==
  /\ pm.proposers[t] # Nil
  /\ ~pm.proposers[t].tlcDone
  /\ pm' = TxnLocallyComplete(pm, t)
  /\ UNCHANGED <<acc, proposed, accs, vr, cm, tt, conn, cr, vc, bbe, ts, qt, vm, sm, dm, ptc, va>>

\* The proposer of txn t has an outcome.
PMFinishProposals(t) ==
  /\ pm.proposers[t] # Nil
  /\ pm' = FinishProposals(pm, t)
  /\ UNCHANGED <<acc, proposed, accs, vr, cm, tt, conn, cr, vc, bbe, ts, qt, vm, sm, dm, ptc, va>>

\* The proposer of txn t is done.
PMTxnFinished(t) ==
  /\ pm.proposers[t] # Nil
  /\ pm' = TxnFinished(pm, t)
  /\ UNCHANGED <<acc, proposed, accs, vr, cm, tt, conn, cr, vc, bbe, ts, qt, vm, sm, dm, ptc, va>>

\* Topology versions never go back.
PMTopologyChanged(k) ==
  /\ IF pm.topology = Nil THEN TRUE ELSE pm.topology.Version <= PMTopologies[k].Version
  /\ pm' = pmTopologyChangedExec(pm, PMTopologies[k])
  /\ UNCHANGED <<acc, proposed, accs, vr, cm, tt, conn, cr, vc, bbe, ts, qt, vm, sm, dm, ptc, va>>

PMNext ==
  \/ \E t \in PMTxnIds, sender \in PMSenders : PMTxnReceived(t, sender)
  \/ \E t \in PMTxnIds, sender \in PMSenders, outcomeIsCommit \in BOOLEAN :
       PMTwoBTxnVotesReceived(t, sender, outcomeIsCommit)
  \/ \E t \in PMTxnIds : PMTxnLocallyComplete(t)
  \/ \E t \in PMTxnIds : PMFinishProposals(t)
  \/ \E t \in PMTxnIds : PMTxnFinished(t)
  \/ \E k \in 1..Len(PMTopologies) : PMTopologyChanged(k)

(***************************************************************************)
(* TOPOLOGY TRANSMOGRIFIER                                                 *)
(* (src/topologytransmogrifier/topologytransmogrifier.go)                  *)
(***************************************************************************)

\* The highest configuration version an operator or a peer supplies.
MaxVersion == 1

TTClusterIds == {"", "c"}
TTClusterUUIds == {0, 1, 2}
TTMaxRMCounts == {2, 3}

\* The Configuration part of a Topology or of a NextConfiguration.
TTConfigurations ==
  [ClusterId : TTClusterIds, ClusterUUId : TTClusterUUIds,
   Version : 0..MaxVersion, MaxRMCount : TTMaxRMCounts]

\* The targets setTarget is called with.
TTNextConfigurations == TTConfigurations

\* The topologies setActiveTopology is called with: a configuration, the RMs
\* removed so far (with or without this RM), and either no change under way
\* or a change to the next version of the same cluster.
TTTopologies ==
  UNION { { [ClusterId |-> c.ClusterId, ClusterUUId |-> c.ClusterUUId,
             Version |-> c.Version, MaxRMCount |-> c.MaxRMCount,
             RMsRemoved |-> removed, NextConfiguration |-> next] :
              removed \in {{}, {RMId}},
              next \in {Nil, [c EXCEPT !.Version = c.Version + 1]} } :
          c \in TTConfigurations }

\* x.Configuration for a Topology or a NextConfiguration x.
ConfigurationOf(x) ==
  [ClusterId |-> x.ClusterId, ClusterUUId |-> x.ClusterUUId,
   Version |-> x.Version, MaxRMCount |-> x.MaxRMCount]

\* Configuration.Equal: every field, the change under way and the removed
\* RMs included.
ConfigurationEqual(a, b) == a = b

\* Configuration.EqualExternally: the fields an operator writes in the
\* configuration file.  The ClusterUUId is generated, not written.
EqualExternally(a, b) ==
  /\ a.ClusterId = b.ClusterId
  /\ a.Version = b.Version
  /\ a.MaxRMCount = b.MaxRMCount

\* activeTopology and currentTask are Nil where the Go pointers are nil.
\* err, installed, abandoned and replaced record the last call: what it
\* returned, the topology it handed to connectionManager.SetTopology (Nil if
\* none), whether it called Abandon on the task it found, and whether it
\* assigned activeTopology where there was one.
NewTopologyTransmogrifier ==
  [self |-> RMId,
   activeTopology |-> Nil,
   currentTask |-> Nil,
   installed |-> Nil,
   err |-> "nil",
   abandoned |-> FALSE,
   replaced |-> FALSE]

newTransmogrificationTask(targetConfig) == [targetConfig |-> targetConfig]

TargetConfig(task) == task.targetConfig

\* A task that finds itself no longer valid when ticked completes and
\* leaves the transmogrifier without a task.
Tick(t, taskDone) ==
  IF taskDone THEN [t EXCEPT !.currentTask = Nil] ELSE t

maybeTick(t, taskDone) ==
  LET quiet == [t EXCEPT !.abandoned = FALSE, !.installed = Nil, !.replaced = FALSE,
                         !.err = "nil"]
  IN IF t.currentTask = Nil THEN quiet ELSE Tick(quiet, taskDone)

installTopology(t, topology) == [t EXCEPT !.installed = topology]

\* Mutation of setTargetVerdict: the version of the target is not compared.
setTargetVerdictAnyVersion(versus, targetConfig) ==
  LET versusConfig == ConfigurationOf(versus)
  IN IF targetConfig.ClusterId # versusConfig.ClusterId /\ versusConfig.ClusterId # ""
     THEN "ClusterId"
     ELSE IF EqualExternally(ConfigurationOf(targetConfig), versusConfig)
     THEN "nil"
     ELSE ""

\* The verdict of setTarget's switch against versus: "" where no case applies.
setTargetVerdict(versus, targetConfig) ==
  LET versusConfig == ConfigurationOf(versus)
  IN IF targetConfig.ClusterId # versusConfig.ClusterId /\ versusConfig.ClusterId # ""
     THEN "ClusterId"
     ELSE IF /\ targetConfig.ClusterUUId # 0
             /\ versusConfig.ClusterUUId # 0
             /\ targetConfig.ClusterUUId # versusConfig.ClusterUUId
     THEN "ClusterUUId"
     ELSE IF targetConfig.MaxRMCount # versusConfig.MaxRMCount /\ versusConfig.Version # 0
     THEN "MaxRMCount"
     ELSE IF EqualExternally(ConfigurationOf(targetConfig), versusConfig)
     THEN "nil"
     ELSE IF targetConfig.Version = versusConfig.Version
     THEN "VersionNotIncreased"
     ELSE IF targetConfig.Version < versusConfig.Version
     THEN "NewerVersionSeen"
     ELSE ""

\* Mutation of setTarget: the task found is abandoned and replaced before
\* the target is compared with it.
setTargetAbandonFirst(t, targetConfig) ==
  [t EXCEPT !.abandoned = t.currentTask # Nil,
            !.currentTask = newTransmogrificationTask(targetConfig),
            !.err = "nil"]

setTarget(t, targetConfig) ==
  LET versus == IF t.currentTask # Nil THEN TargetConfig(t.currentTask)
                ELSE t.activeTopology
      verdict == IF versus # Nil THEN setTargetVerdict(versus, targetConfig) ELSE ""
  IN IF verdict # ""
     THEN [t EXCEPT !.err = verdict, !.abandoned = FALSE]
     ELSE [t EXCEPT !.abandoned = t.currentTask # Nil,
                    !.currentTask = newTransmogrificationTask(targetConfig),
                    !.err = "nil"]

\* Mutation of setActiveTopology: the topology becomes active before this
\* RM looks for itself in RMsRemoved.
setActiveTopologyThenCheckRemoved(t, topology, hostFound, taskDone) ==
  LET active == [t EXCEPT !.activeTopology = topology, !.abandoned = FALSE,
                            !.installed = Nil, !.replaced = t.activeTopology # Nil]
  IN IF t.self \in topology.RMsRemoved
     THEN [active EXCEPT !.err = "Removed"]
     ELSE [installTopology(active, topology) EXCEPT !.err = "nil"]

setActiveTopology(t, topology, hostFound, taskDone) ==
  LET quiet == [t EXCEPT !.abandoned = FALSE, !.installed = Nil, !.replaced = FALSE]
      ignored ==
        IF t.activeTopology = Nil THEN ""
        ELSE IF /\ t.activeTopology.ClusterId # topology.ClusterId
                /\ t.activeTopology.ClusterId # ""
        THEN "ClusterIdChange"
        ELSE IF topology.Version < t.activeTopology.Version THEN "nil"
        ELSE IF ConfigurationEqual(t.activeTopology, topology) THEN "nil"
        ELSE ""
      active == [quiet EXCEPT !.activeTopology = topology,
                              !.replaced = t.activeTopology # Nil]
  IN IF ignored # "" THEN [quiet EXCEPT !.err = ignored]
     ELSE IF t.self \in topology.RMsRemoved THEN [quiet EXCEPT !.err = "Removed"]
     ELSE IF t.currentTask = Nil
     THEN IF topology.NextConfiguration = Nil
          THEN IF hostFound
               THEN [installTopology(active, topology) EXCEPT !.err = "nil"]
               ELSE [active EXCEPT !.err = "LocalHostNotFound"]
          ELSE setTarget(active, topology.NextConfiguration)
     ELSE [Tick(active, taskDone) EXCEPT !.err = "nil"]

\* ---- actions ---------------------------------------------------------------

TTSetActiveTopology(topology, hostFound, taskDone) ==
  /\ tt' = setActiveTopology(tt, topology, hostFound, taskDone)
  /\ UNCHANGED <<acc, proposed, accs, vr, cm, pm, conn, cr, vc, bbe, ts, qt, vm, sm, dm, ptc, va>>

TTSetTarget(targetConfig) ==
  /\ tt' = setTarget([tt EXCEPT !.installed = Nil, !.replaced = FALSE], targetConfig)
  /\ UNCHANGED <<acc, proposed, accs, vr, cm, pm, conn, cr, vc, bbe, ts, qt, vm, sm, dm, ptc, va>>

TTMaybeTick(taskDone) ==
  /\ tt' = maybeTick(tt, taskDone)
  /\ UNCHANGED <<acc, proposed, accs, vr, cm, pm, conn, cr, vc, bbe, ts, qt, vm, sm, dm, ptc, va>>

\* Whether the local host is found only matters to a call that installs, and
\* whether the task is done only to a call that ticks a task.
TTNext ==
  \/ \E topology \in TTTopologies :
       \E hostFound \in IF tt.currentTask = Nil /\ topology.NextConfiguration = Nil
                        THEN BOOLEAN ELSE {TRUE},
          taskDone \in IF tt.currentTask # Nil THEN BOOLEAN ELSE {FALSE} :
         TTSetActiveTopology(topology, hostFound, taskDone)
  \/ \E targetConfig \in TTNextConfigurations : TTSetTarget(targetConfig)
  \/ \E taskDone \in IF tt.currentTask # Nil THEN BOOLEAN ELSE {FALSE} :
       TTMaybeTick(taskDone)

(***************************************************************************)
(* CONNECTION (src/unnamed/part_000, src/network/protocols.go)             *)
(***************************************************************************)

\* What the peer says in its hellos: whether the bytes arrive at all (socket
\* and TLS), whether product and version are the expected ones, whether it
\* is a client, and the HelloServerFromServer of a server.
ConnClusterIds == {"c", "d"}
ConnClusterUUIds == {0, 1, 2}
ConnRemoteRMIds == {2, 3}

ConnHellos ==
  [ioOk : BOOLEAN, productOk : BOOLEAN, isClient : BOOLEAN,
   ClusterId : ConnClusterIds, ClusterUUId : ConnClusterUUIds, RmId : ConnRemoteRMIds]

\* The topologies the connection is given by the connection manager.
ConnTopologies ==
  [ClusterId : {"c"}, ClusterUUId : {0, 1}, RMsRemoved : {{}, {3}}]

\* connectionNumber is 0 for a connection this node dials and the listener's
\* count for one it accepted.  currentState is "none" where the Go field is
\* nil; previousState is the state whose start has run.  established is TRUE
\* between the protocol's ServerEstablished and its ServerLost; err is what
\* the last handler returned.  delay is TRUE while connectionDelay holds a
\* timer, timer the number of timer messages not handled yet.
NewConnectionOf(connectionNumber, topology) ==
  [connectionNumber |-> connectionNumber,
   restartable |-> connectionNumber = 0,
   currentState |-> "Dial",
   previousState |-> "none",
   protocol |-> Nil,
   topology |-> topology,
   shuttingDown |-> FALSE,
   established |-> FALSE,
   delay |-> FALSE,
   timer |-> 0,
   err |-> "nil"]

NewConnection == NewConnectionOf(0, [ClusterId |-> "c", ClusterUUId |-> 0, RMsRemoved |-> {}])

verifyHello(hello) == hello.productOk

\* Mutation of verifyTopology: the cluster id is not compared.
verifyTopologyAnyCluster(topology, remote) ==
  remote.ClusterUUId = 0 \/ topology.ClusterUUId = 0
    \/ remote.ClusterUUId = topology.ClusterUUId

verifyTopology(topology, remote) ==
  IF topology.ClusterId = remote.ClusterId
  THEN remote.ClusterUUId = 0 \/ topology.ClusterUUId = 0
         \/ remote.ClusterUUId = topology.ClusterUUId
  ELSE FALSE

\* TLSCapnpServer.finishHandshake: the error returned and whether the
\* handshaker stays restartable.
finishHandshake(c, hello) ==
  IF ~hello.ioOk THEN [c EXCEPT !.err = "io"]
  ELSE IF verifyTopology(c.topology, hello)
       THEN IF hello.RmId \in c.topology.RMsRemoved
            THEN [c EXCEPT !.restartable = FALSE, !.err = "Removed"]
            ELSE [c EXCEPT !.err = "nil"]
       ELSE [c EXCEPT !.err = "UnequalTopology"]

\* TLSCapnpHandshaker.PerformHandshake: the protocol it returns is kept by
\* the connection only when the error is nil.
PerformHandshake(c, hello) ==
  IF ~hello.ioOk THEN [c EXCEPT !.err = "io"]
  ELSE IF verifyHello(hello)
       THEN IF hello.isClient
            THEN [c EXCEPT !.err = "nil", !.protocol = [isClient |-> TRUE]]
            ELSE LET done == finishHandshake(c, hello)
                 IN IF done.err = "nil"
                    THEN [done EXCEPT !.protocol =
                            [isClient |-> FALSE, remoteRMId |-> hello.RmId,
                             remoteClusterUUId |-> hello.ClusterUUId]]
                    ELSE done
       ELSE [c EXCEPT !.err = "ErroneousHello"]

\* Mutation of connMaybeRestart: an error is always fatal.
connMaybeRestartNever(c) == FALSE

\* Connection.maybeRestartConnection: what Restart of the protocol, or of
\* the handshaker where there is no protocol, returns.
connMaybeRestart(c) ==
  IF c.protocol # Nil
  THEN IF c.protocol.isClient THEN FALSE ELSE c.restartable
  ELSE c.restartable

\* connectionDelay.start
connectionDelayStart(c) ==
  IF c.delay THEN [c EXCEPT !.protocol = Nil]
  ELSE [c EXCEPT !.protocol = Nil, !.delay = TRUE, !.timer = @ + 1]

\* connectionInner.HandleShutdown with the error a handler returned.  The
\* protocol's Restart and InternalShutdown tell the connection manager
\* ServerLost.
HandleShutdown(c) ==
  LET lost == [c EXCEPT !.established = FALSE]
  IN IF connMaybeRestart(c)
     THEN connectionDelayStart([lost EXCEPT !.currentState = "Delay"])
     ELSE [lost EXCEPT !.shuttingDown = TRUE, !.currentState = "none",
                       !.protocol = Nil]

\* connectionDelay.Exec that does not ask which state the connection is in.
connectionDelayExecAnyState(c) ==
  [c EXCEPT !.previousState = "Delay", !.currentState = "Dial", !.err = "nil",
            !.delay = FALSE, !.timer = @ - 1]

\* connectionDelay.Exec: the message of the delay's timer, its start having
\* run.
connectionDelayExec(c) ==
  IF c.currentState = "Delay"
  THEN [c EXCEPT !.previousState = "Delay", !.currentState = "Dial", !.err = "nil",
                 !.delay = FALSE, !.timer = @ - 1]
  ELSE [c EXCEPT !.timer = @ - 1]

\* connectionInner.HandleShutdown(nil): the connection is told to shut down.
connShutdown(c) ==
  [c EXCEPT !.established = FALSE, !.shuttingDown = TRUE, !.currentState = "none",
            !.protocol = Nil, !.err = "nil"]

connectionDialStart(c, dialed) ==
  IF dialed
  THEN [c EXCEPT !.previousState = "Dial", !.currentState = "Handshake", !.err = "nil"]
  ELSE connectionDelayStart(
         [c EXCEPT !.previousState = "Dial", !.currentState = "Delay", !.err = "nil"])

connectionHandshakeStart(c, hello) ==
  LET done == PerformHandshake([c EXCEPT !.previousState = "Handshake"], hello)
  IN IF done.err = "nil" THEN [done EXCEPT !.currentState = "Run"]
     ELSE HandleShutdown(done)

\* connectionRun.start: Run of the protocol; a server protocol tells the
\* connection manager ServerEstablished.
connectionRunStart(c) ==
  IF c.protocol.isClient THEN [c EXCEPT !.previousState = "Run", !.err = "nil"]
  ELSE [c EXCEPT !.previousState = "Run", !.established = TRUE, !.err = "nil"]

connTopologyChanged(c, topology) ==
  LET changed == [c EXCEPT !.topology = topology, !.err = "nil"]
  IN IF c.protocol = Nil THEN changed
     ELSE IF c.protocol.isClient THEN changed
     ELSE IF c.restartable /\ c.protocol.remoteRMId \in topology.RMsRemoved
          THEN [changed EXCEPT !.restartable = FALSE]
          ELSE changed

\* ---- actions ---------------------------------------------------------------

ConnDelayExec ==
  /\ conn.timer > 0
  /\ conn' = connectionDelayExec(conn)
  /\ UNCHANGED <<acc, proposed, accs, vr, cm, pm, tt, cr, vc, bbe, ts, qt, vm, sm, dm, ptc, va>>

ConnDial(dialed) ==
  /\ conn.currentState = "Dial"
  /\ conn' = connectionDialStart(conn, dialed)
  /\ UNCHANGED <<acc, proposed, accs, vr, cm, pm, tt, cr, vc, bbe, ts, qt, vm, sm, dm, ptc, va>>

ConnHandshake(hello) ==
  /\ conn.currentState = "Handshake"
  /\ conn' = connectionHandshakeStart(conn, hello)
  /\ UNCHANGED <<acc, proposed, accs, vr, cm, pm, tt, cr, vc, bbe, ts, qt, vm, sm, dm, ptc, va>>

ConnRunStart ==
  /\ conn.currentState = "Run"
  /\ conn.previousState # "Run"
  /\ conn' = connectionRunStart(conn)
  /\ UNCHANGED <<acc, proposed, accs, vr, cm, pm, tt, cr, vc, bbe, ts, qt, vm, sm, dm, ptc, va>>

\* A handler of the running connection returns an error (the reader fails,
\* the peer sends an error, a send fails).
ConnRunError ==
  /\ conn.currentState = "Run"
  /\ conn.previousState = "Run"
  /\ conn' = HandleShutdown([conn EXCEPT !.err = "io"])
  /\ UNCHANGED <<acc, proposed, accs, vr, cm, pm, tt, cr, vc, bbe, ts, qt, vm, sm, dm, ptc, va>>

ConnTopologyChanged(topology) ==
  /\ ~conn.shuttingDown
  /\ conn' = [connTopologyChanged(conn, topology) EXCEPT !.err = conn.err]
  /\ UNCHANGED <<acc, proposed, accs, vr, cm, pm, tt, cr, vc, bbe, ts, qt, vm, sm, dm, ptc, va>>

\* The connection manager, or the node's shutdown, shuts the connection down.
ConnShutdown ==
  /\ ~conn.shuttingDown
  /\ conn' = connShutdown(conn)
  /\ UNCHANGED <<acc, proposed, accs, vr, cm, pm, tt, cr, vc, bbe, ts, qt, vm, sm, dm, ptc, va>>

\* The steps of the connection's state machine.
ConnStateStep ==
  \/ ConnDelayExec
  \/ \E dialed \in BOOLEAN : ConnDial(dialed)
  \/ \E hello \in ConnHellos : ConnHandshake(hello)
  \/ ConnRunStart
  \/ ConnRunError

ConnNext ==
  \/ ConnStateStep
  \/ \E topology \in ConnTopologies : ConnTopologyChanged(topology)

ConnLifeNext ==
  \/ ConnNext
  \/ ConnShutdown
(***************************************************************************)
(* CONNECTION HEARTBEATS (src/network/connection.go, connectionRun)        *)
(***************************************************************************)

\* The beats after which a silent connection is given up.
MissingBeatsLimit == 2

\* The messages the beater and the reader may have queued for the actor.
MaxMailbox == 2

\* The messages a peer sends, by what handleMsgFromServer and
\* handleMsgFromClient do with them.
CRMessages == {"Heartbeat", "ConnectionError", "Other"}

\* currentState is "Handshake" from the socket to the end of the handshakes;
\* remoteHost is "" until a connection from the listener has the peer's hello.
\* silent counts the beats handled since the connection last started to run
\* or received a message; lost is TRUE once the connection manager has been
\* told ServerLost or ClientLost; mailbox holds what the beater and the reader
\* have enqueued; err is what the last handler returned.
NewConnectionRunOf(remoteHost) ==
  [currentState |-> "Handshake",
   remoteHost |-> remoteHost,
   isServer |-> FALSE,
   isClient |-> FALSE,
   restart |-> FALSE,
   mustSendBeat |-> FALSE,
   missingBeats |-> 0,
   silent |-> 0,
   lost |-> FALSE,
   mailbox |-> <<>>,
   err |-> "nil"]

\* A connection accepted by the listener, whose remote host is not known.
NewConnectionRun == NewConnectionRunOf("")

\* handleShutdown: the actor ends on an error a handler returned.
crHandleShutdown(c, err) ==
  IF err = "nil" THEN [c EXCEPT !.err = "nil"]
  ELSE [c EXCEPT !.err = err, !.currentState = "none",
                 !.lost = c.isClient \/ c.isServer]

crMaybeRestartConnection(c, err) ==
  IF err = "nil" \/ c.currentState # "Run" THEN crHandleShutdown(c, "nil")
  ELSE IF c.isServer
       THEN IF c.restart
            THEN [c EXCEPT !.lost = TRUE, !.currentState = "Delay", !.err = "nil"]
            ELSE crHandleShutdown([c EXCEPT !.lost = TRUE], err)
  ELSE IF c.isClient THEN crHandleShutdown([c EXCEPT !.lost = TRUE], err)
  ELSE crHandleShutdown(c, err)

\* connectionAwaitHandshake.maybeRestartConnection.
crHandshakeFailed(c) ==
  IF c.remoteHost = "" THEN crHandleShutdown(c, "io")
  ELSE [c EXCEPT !.currentState = "Delay", !.err = "nil"]

\* The end of the handshakes and connectionRun.start.  The hello of a server
\* names its host.
crStart(c, asClient) ==
  [c EXCEPT !.currentState = "Run",
            !.remoteHost = IF asClient THEN @ ELSE "peer",
            !.isClient = asClient, !.isServer = ~asClient,
            !.restart = TRUE, !.mustSendBeat = TRUE,
            !.missingBeats = 0, !.silent = 0, !.lost = FALSE, !.err = "nil"]

\* Mutation of crHandleMsg: a heartbeat does not reset the count.
crHandleMsgHeartbeatIgnored(c, which) ==
  IF c.currentState # "Run" THEN crHandleShutdown(c, "nil")
  ELSE IF which = "Heartbeat" THEN crHandleShutdown([c EXCEPT !.silent = 0], "nil")
  ELSE [c EXCEPT !.missingBeats = 0, !.silent = 0, !.err = "nil"]

\* handleMsgFromServer and handleMsgFromClient.
crHandleMsg(c, which) ==
  IF c.currentState # "Run" THEN crHandleShutdown(c, "nil")
  ELSE LET reset == [c EXCEPT !.missingBeats = 0, !.silent = 0]
       IN IF which = "Heartbeat" THEN crHandleShutdown(reset, "nil")
          ELSE IF which = "ConnectionError"
               THEN IF c.isServer THEN crHandleShutdown(reset, "ErrorReceived")
                    ELSE crMaybeRestartConnection(reset, "UnexpectedMessage")
          ELSE crHandleShutdown(reset, "nil")

crSendMessage(c, sent) ==
  IF c.currentState = "Run"
  THEN crMaybeRestartConnection([c EXCEPT !.mustSendBeat = FALSE],
                                IF sent THEN "nil" ELSE "io")
  ELSE crHandleShutdown(c, "nil")

\* Mutation of crBeat: the connection is given up at the limit plus one.
crBeatLate(c, sent) ==
  IF c.currentState # "Run" THEN crHandleShutdown(c, "nil")
  ELSE IF c.missingBeats = MissingBeatsLimit + 1
       THEN crMaybeRestartConnection(c, "MissedBeats")
  ELSE [c EXCEPT !.missingBeats = @ + 1, !.silent = @ + 1, !.mustSendBeat = TRUE,
                 !.err = "nil"]

crBeat(c, sent) ==
  IF c.currentState # "Run" THEN crHandleShutdown(c, "nil")
  ELSE IF c.missingBeats = MissingBeatsLimit
       THEN crMaybeRestartConnection(c, "MissedBeats")
  ELSE LET missed == [c EXCEPT !.missingBeats = @ + 1, !.silent = @ + 1]
       IN IF c.mustSendBeat
          THEN crMaybeRestartConnection(missed, IF sent THEN "nil" ELSE "io")
          ELSE [missed EXCEPT !.mustSendBeat = TRUE, !.err = "nil"]

crTopologyChanged(c, remoteRemoved) ==
  IF c.currentState # "Run" THEN c
  ELSE IF c.isServer /\ remoteRemoved THEN [c EXCEPT !.restart = FALSE]
  ELSE c

\* ---- actions ---------------------------------------------------------------

CRDelayReceived ==
  /\ cr.currentState = "Delay"
  /\ cr' = [cr EXCEPT !.currentState = "Handshake", !.isServer = FALSE,
                      !.isClient = FALSE]
  /\ UNCHANGED <<acc, proposed, accs, vr, cm, pm, tt, conn, vc, bbe, ts, qt, vm, sm, dm, ptc, va>>

CRStart(asClient) ==
  /\ cr.currentState = "Handshake"
  /\ cr' = crStart(cr, asClient)
  /\ UNCHANGED <<acc, proposed, accs, vr, cm, pm, tt, conn, vc, bbe, ts, qt, vm, sm, dm, ptc, va>>

CRHandshakeFailed ==
  /\ cr.currentState = "Handshake"
  /\ cr' = crHandshakeFailed(cr)
  /\ UNCHANGED <<acc, proposed, accs, vr, cm, pm, tt, conn, vc, bbe, ts, qt, vm, sm, dm, ptc, va>>

\* The beater's ticker fires: a connectionBeater message is enqueued.
CRTick ==
  /\ cr.currentState = "Run"
  /\ Len(cr.mailbox) < MaxMailbox
  /\ cr' = [cr EXCEPT !.mailbox = Append(@, "Beat")]
  /\ UNCHANGED <<acc, proposed, accs, vr, cm, pm, tt, conn, vc, bbe, ts, qt, vm, sm, dm, ptc, va>>

\* The reader has read a message: a connectionReadMessage is enqueued.
CRRead(which) ==
  /\ cr.currentState = "Run"
  /\ Len(cr.mailbox) < MaxMailbox
  /\ cr' = [cr EXCEPT !.mailbox = Append(@, which)]
  /\ UNCHANGED <<acc, proposed, accs, vr, cm, pm, tt, conn, vc, bbe, ts, qt, vm, sm, dm, ptc, va>>

\* handleMsg of the message at the head of the mailbox.
CRBeat(sent) ==
  /\ cr.currentState # "none"
  /\ cr.mailbox # <<>>
  /\ Head(cr.mailbox) = "Beat"
  /\ cr' = crBeat([cr EXCEPT !.mailbox = Tail(@)], sent)
  /\ UNCHANGED <<acc, proposed, accs, vr, cm, pm, tt, conn, vc, bbe, ts, qt, vm, sm, dm, ptc, va>>

CRHandleMsg ==
  /\ cr.currentState # "none"
  /\ cr.mailbox # <<>>
  /\ Head(cr.mailbox) # "Beat"
  /\ cr' = crHandleMsg([cr EXCEPT !.mailbox = Tail(@)], Head(cr.mailbox))
  /\ UNCHANGED <<acc, proposed, accs, vr, cm, pm, tt, conn, vc, bbe, ts, qt, vm, sm, dm, ptc, va>>

CRSendMessage(sent) ==
  /\ cr.currentState # "none"
  /\ cr' = crSendMessage(cr, sent)
  /\ UNCHANGED <<acc, proposed, accs, vr, cm, pm, tt, conn, vc, bbe, ts, qt, vm, sm, dm, ptc, va>>

CRTopologyChanged(remoteRemoved) ==
  /\ cr.currentState # "none"
  /\ cr' = crTopologyChanged(cr, remoteRemoved)
  /\ UNCHANGED <<acc, proposed, accs, vr, cm, pm, tt, conn, vc, bbe, ts, qt, vm, sm, dm, ptc, va>>

CRNext ==
  \/ CRDelayReceived
  \/ \E asClient \in BOOLEAN : CRStart(asClient)
  \/ CRHandshakeFailed
  \/ CRTick
  \/ \E which \in CRMessages : CRRead(which)
  \/ \E sent \in BOOLEAN : CRBeat(sent)
  \/ CRHandleMsg
  \/ \E sent \in BOOLEAN : CRSendMessage(sent)
  \/ \E remoteRemoved \in BOOLEAN : CRTopologyChanged(remoteRemoved)


(***************************************************************************)
(* TOPOLOGY SUBSCRIBERS (src/network/protocols.go)                         *)
(***************************************************************************)

\* The subscriber kinds and the subscribers that register under each.
TSKinds == {"ProposerSubscriber", "VarSubscriber"}
TSSubs(kind) == IF kind = "ProposerSubscriber" THEN {1, 2} ELSE {1}

\* SetTopology is called at most this often.
MaxSetTopologies == 1

\* The connection manager's topologySubscribers, the number of topologies
\* set, and the go-routines of TopologyChanged: one per SetTopology n and
\* kind, with the number of subscribers called, those that have not called
\* done yet (pending), whether one of them called done(false) (failed), the
\* channel of results, the number of results still expected, whether it
\* holds a callback (cb), how often it called it (fired) and whether it
\* still runs.
NewTopologySubscribers ==
  [subscribers |-> [k \in TSKinds |-> {}],
   count |-> 0,
   waits |-> {}]

\* topologySubscribers.AddSubscriber
tsAddSubscriber(t, subType, ob) ==
  IF ob \in t.subscribers[subType] THEN t
  ELSE [t EXCEPT !.subscribers[subType] = @ \cup {ob}]

\* topologySubscribers.RemoveSubscriber
tsRemoveSubscriber(t, subType, ob) ==
  [t EXCEPT !.subscribers[subType] = @ \ {ob}]

\* topologySubscribers.TopologyChanged: every subscriber of every kind is
\* called with the topology and done, and a go-routine is started per kind.
tsTopologyChanged(t, n, callbacks) ==
  [t EXCEPT !.waits = @ \cup
     {[n |-> n, kind |-> k,
       called |-> Cardinality(t.subscribers[k]),
       pending |-> t.subscribers[k],
       failed |-> FALSE,
       resultChan |-> <<>>,
       expected |-> Cardinality(t.subscribers[k]),
       cb |-> k \in callbacks,
       fired |-> 0,
       running |-> TRUE] : k \in TSKinds}]

\* ConnectionManager.setTopology (the part about the subscribers)
tsSetTopology(t, callbacks) ==
  tsTopologyChanged([t EXCEPT !.count = @ + 1], t.count + 1, callbacks)

\* done(success), as a subscriber calls it
tsDone(w, sub, success) ==
  [w EXCEPT !.pending = @ \ {sub},
            !.failed = @ \/ ~success,
            !.resultChan = Append(@, success)]

\* The go-routine that calls the callback as soon as a success arrives.
tsWaitFiresOnSuccess(w) ==
  IF w.expected > 0
  THEN LET success == Head(w.resultChan)
           expected == w.expected - 1
       IN [w EXCEPT !.resultChan = Tail(@),
                    !.expected = expected,
                    !.running = expected > 0,
                    !.fired = IF w.cb /\ success THEN @ + 1 ELSE @]
  ELSE [w EXCEPT !.running = FALSE, !.fired = IF w.cb THEN @ + 1 ELSE @]

\* The go-routine of TopologyChanged: it takes the next result from the
\* channel, drops the callback on a failure and, when no result is expected
\* any more, calls the callback if it still has it.
tsWait(w) ==
  IF w.expected > 0
  THEN LET success == Head(w.resultChan)
           expected == w.expected - 1
           cb == w.cb /\ success
       IN [w EXCEPT !.resultChan = Tail(@),
                    !.expected = expected,
                    !.cb = cb,
                    !.running = expected > 0,
                    !.fired = IF expected = 0 /\ cb THEN @ + 1 ELSE @]
  ELSE [w EXCEPT !.running = FALSE, !.fired = IF w.cb THEN @ + 1 ELSE @]

\* ---- actions ---------------------------------------------------------------

TSAddSubscriber(k, sub) ==
  /\ sub \notin ts.subscribers[k]
  /\ ts' = tsAddSubscriber(ts, k, sub)
  /\ UNCHANGED <<acc, proposed, accs, vr, cm, pm, tt, conn, cr, vc, bbe, qt, vm, sm, dm, ptc, va>>

TSRemoveSubscriber(k, sub) ==
  /\ sub \in ts.subscribers[k]
  /\ ts' = tsRemoveSubscriber(ts, k, sub)
  /\ UNCHANGED <<acc, proposed, accs, vr, cm, pm, tt, conn, cr, vc, bbe, qt, vm, sm, dm, ptc, va>>

TSSetTopology(callbacks) ==
  /\ ts.count < MaxSetTopologies
  /\ ts' = tsSetTopology(ts, callbacks)
  /\ UNCHANGED <<acc, proposed, accs, vr, cm, pm, tt, conn, cr, vc, bbe, qt, vm, sm, dm, ptc, va>>

TSDone(w, sub, success) ==
  /\ sub \in w.pending
  /\ ts' = [ts EXCEPT !.waits = (@ \ {w}) \cup {tsDone(w, sub, success)}]
  /\ UNCHANGED <<acc, proposed, accs, vr, cm, pm, tt, conn, cr, vc, bbe, qt, vm, sm, dm, ptc, va>>

TSWait(w) ==
  /\ w.running
  /\ w.expected = 0 \/ w.resultChan # <<>>
  /\ ts' = [ts EXCEPT !.waits = (@ \ {w}) \cup {tsWait(w)}]
  /\ UNCHANGED <<acc, proposed, accs, vr, cm, pm, tt, conn, cr, vc, bbe, qt, vm, sm, dm, ptc, va>>

TSNext ==
  \/ \E k \in TSKinds : \E sub \in TSSubs(k) : TSAddSubscriber(k, sub)
  \/ \E k \in TSKinds : \E sub \in TSSubs(k) : TSRemoveSubscriber(k, sub)
  \/ \E callbacks \in SUBSET TSKinds : TSSetTopology(callbacks)
  \/ \E w \in ts.waits : \E sub \in w.pending, success \in BOOLEAN : TSDone(w, sub, success)
  \/ \E w \in ts.waits : TSWait(w)
(***************************************************************************)
(* QUIET TASK (src/topologytransmogrifier/task4quiet.go)                   *)
(***************************************************************************)

\* The installations one task issues, and the active topologies it is given.
MaxInstallations == 4
MaxQuietTopologies == 2

\* The active topologies a quiet task meets.  Configuration stands for the
\* address of NextConfiguration.Configuration, a new one with every topology
\* read.  One topology passes IsValidTask, each of the others fails one of
\* its conjuncts.
QuietTopologies(ptr) ==
  LET next == [Version |-> 1, InstalledOnNew |-> TRUE, QuietRMIds |-> {},
               Configuration |-> ptr]
      good == [ClusterId |-> "c", NextConfiguration |-> next]
  IN {Nil, good,
      [good EXCEPT !.ClusterId = ""],
      [good EXCEPT !.NextConfiguration = Nil],
      [good EXCEPT !.NextConfiguration.Version = 2],
      [good EXCEPT !.NextConfiguration.InstalledOnNew = FALSE],
      [good EXCEPT !.NextConfiguration.QuietRMIds = {RMId}]}

\* A quiet task and what surrounds it.  installing is 0 where the Go pointer
\* is nil.  installations[n] is the n-th call of installTopology: the kind of
\* subscriber its callback is for, the activeNextConfig its callback has
\* captured and, for the record, the stage it was issued in.  seen[k] is the
\* last installation the subscriber of kind k has executed, held[k] the one
\* whose done it still holds (0 for none), acked the installations whose
\* callback is on its way to the transmogrifier.  advancedBy is the
\* installation whose callback moved the stage last (0 for none), txns the
\* topology transactions created, topologies the topologies given so far.
NewQuiet(activeTopology) ==
  [targetConfig |-> [Version |-> 1],
   activeTopology |-> activeTopology,
   installing |-> 0,
   stage |-> 0,
   completed |-> FALSE,
   err |-> "nil",
   installations |-> << >>,
   seen |-> [k \in TSKinds |-> 0],
   held |-> [k \in TSKinds |-> 0],
   acked |-> {},
   advancedBy |-> 0,
   txns |-> {},
   topologies |-> 1]

IsValidTask(task) ==
  LET active == task.activeTopology
  IN IF active = Nil THEN FALSE
     ELSE IF active.ClusterId = "" THEN FALSE
     ELSE IF active.NextConfiguration = Nil THEN FALSE
     ELSE /\ active.NextConfiguration.Version = task.targetConfig.Version
          /\ active.NextConfiguration.InstalledOnNew
          /\ RMId \notin active.NextConfiguration.QuietRMIds

\* task.completed(): the task is over and the transmogrifier has no task.
quietCompleted(task) == [task EXCEPT !.completed = TRUE]

\* task.installTopology(task.activeTopology, {kind: callback}, ...)
quietInstallTopology(task, kind) ==
  [task EXCEPT !.installations =
     Append(@, [kind |-> kind, config |-> task.installing, stage |-> task.stage])]

\* Mutation of quietTick: the stage is kept when the configuration changes.
quietTickKeepingStage(task, hostErr, formed) ==
  IF ~IsValidTask(task) THEN quietCompleted(task)
  ELSE IF hostErr THEN [task EXCEPT !.err = "fatal"]
  ELSE
    LET next == task.activeTopology.NextConfiguration
        fresh == [task EXCEPT !.installing = next.Configuration]
    IN IF fresh.stage \in {0, 2} THEN quietInstallTopology(fresh, "ProposerSubscriber")
       ELSE IF fresh.stage = 1 THEN quietInstallTopology(fresh, "VarSubscriber")
       ELSE IF ~formed THEN fresh
       ELSE [fresh EXCEPT !.txns = @ \cup
               {[from |-> next.Configuration, QuietRMIds |-> next.QuietRMIds \cup {RMId}]}]

\* quiet.Tick.  hostErr: firstLocalHost fails; formed: formActivePassive
\* finds enough active RMs.
quietTick(task, hostErr, formed) ==
  IF ~IsValidTask(task) THEN quietCompleted(task)
  ELSE IF hostErr THEN [task EXCEPT !.err = "fatal"]
  ELSE
    LET next == task.activeTopology.NextConfiguration
        fresh == IF next.Configuration # task.installing
                 THEN [task EXCEPT !.installing = next.Configuration, !.stage = 0,
                                   !.advancedBy = 0]
                 ELSE task
    IN IF fresh.stage \in {0, 2} THEN quietInstallTopology(fresh, "ProposerSubscriber")
       ELSE IF fresh.stage = 1 THEN quietInstallTopology(fresh, "VarSubscriber")
       ELSE IF ~formed THEN fresh
       ELSE [fresh EXCEPT !.txns = @ \cup
               {[from |-> next.Configuration, QuietRMIds |-> next.QuietRMIds \cup {RMId}]}]

\* tt.maybeTick with this task: a completed task is not the current task.
quietMaybeTick(task, hostErr, formed) ==
  IF task.completed THEN task ELSE quietTick(task, hostErr, formed)

\* The closure Tick hands on in stages 0 and 2, for installation n.
quietProposerCallback(task, n, hostErr, formed) ==
  LET activeNextConfig == task.installations[n].config
      stepped == IF activeNextConfig = task.installing /\ task.stage \in {0, 2}
                 THEN [task EXCEPT !.stage = @ + 1, !.advancedBy = n]
                 ELSE task
  IN quietMaybeTick(stepped, hostErr, formed)

\* The closure Tick hands on in stage 1, for installation n.
quietVarCallback(task, n, hostErr, formed) ==
  LET activeNextConfig == task.installations[n].config
      stepped == IF activeNextConfig = task.installing /\ task.stage = 1
                 THEN [task EXCEPT !.stage = 2, !.advancedBy = n]
                 ELSE task
  IN quietMaybeTick(stepped, hostErr, formed)

quietCallback(task, n, hostErr, formed) ==
  LET ran == [task EXCEPT !.acked = @ \ {n}]
  IN IF task.installations[n].kind = "ProposerSubscriber"
     THEN quietProposerCallback(ran, n, hostErr, formed)
     ELSE quietVarCallback(ran, n, hostErr, formed)

\* done(TRUE) of the subscriber of kind k for installation n: the callback of
\* an installation made for that kind sets off for the transmogrifier.
quietDone(task, k, n) ==
  IF task.installations[n].kind = k THEN [task EXCEPT !.acked = @ \cup {n}] ELSE task

\* The subscriber of kind k executes the next TopologyChanged it was sent:
\* a done it still holds is called with false and dropped; the new one is
\* held, and called with true at once if nothing is left to wait for.
quietTopologyChanged(task, k, now) ==
  LET n == task.seen[k] + 1
      taken == [task EXCEPT !.seen[k] = n, !.held[k] = n]
  IN IF now THEN quietDone([taken EXCEPT !.held[k] = 0], k, n) ELSE taken

\* checkAllDisk of the subscriber of kind k finds nothing left to wait for.
quietCheckAllDisk(task, k) ==
  quietDone([task EXCEPT !.held[k] = 0], k, task.held[k])

\* setActiveTopology with a task in place: the task sees the new topology
\* and is ticked.
quietSetActiveTopology(task, topology, hostErr, formed) ==
  quietMaybeTick([task EXCEPT !.activeTopology = topology, !.topologies = @ + 1],
                 hostErr, formed)

\* A tick issues at most one installation; at the bound only the ticks that
\* issue none are taken.
QuietWithinBound(after) == Len(after.installations) <= MaxInstallations

QuietTick ==
  /\ ~qt.completed
  /\ \E hostErr \in BOOLEAN, formed \in BOOLEAN :
       LET after == quietTick(qt, hostErr, formed)
       IN QuietWithinBound(after) /\ qt' = after
  /\ UNCHANGED <<acc, proposed, accs, vr, cm, pm, tt, conn, cr, vc, bbe, ts, vm, sm, dm, ptc, va>>

QuietTopologyChanged ==
  /\ \E k \in TSKinds, now \in BOOLEAN :
       /\ qt.seen[k] < Len(qt.installations)
       /\ qt' = quietTopologyChanged(qt, k, now)
  /\ UNCHANGED <<acc, proposed, accs, vr, cm, pm, tt, conn, cr, vc, bbe, ts, vm, sm, dm, ptc, va>>

QuietCheckAllDisk ==
  /\ \E k \in TSKinds :
       /\ qt.held[k] # 0
       /\ qt' = quietCheckAllDisk(qt, k)
  /\ UNCHANGED <<acc, proposed, accs, vr, cm, pm, tt, conn, cr, vc, bbe, ts, vm, sm, dm, ptc, va>>

QuietCallback ==
  /\ \E n \in qt.acked, hostErr \in BOOLEAN, formed \in BOOLEAN :
       LET after == quietCallback(qt, n, hostErr, formed)
       IN QuietWithinBound(after) /\ qt' = after
  /\ UNCHANGED <<acc, proposed, accs, vr, cm, pm, tt, conn, cr, vc, bbe, ts, vm, sm, dm, ptc, va>>

QuietSetActiveTopology ==
  /\ qt.topologies < MaxQuietTopologies
  /\ \E topology \in QuietTopologies(qt.topologies + 1),
        hostErr \in BOOLEAN, formed \in BOOLEAN :
       LET after == quietSetActiveTopology(qt, topology, hostErr, formed)
       IN QuietWithinBound(after) /\ qt' = after
  /\ UNCHANGED <<acc, proposed, accs, vr, cm, pm, tt, conn, cr, vc, bbe, ts, vm, sm, dm, ptc, va>>

QuietNext ==
  \/ QuietTick
  \/ QuietTopologyChanged
  \/ QuietCheckAllDisk
  \/ QuietCallback
  \/ QuietSetActiveTopology

(***************************************************************************)
(* SUBSCRIPTION MANAGER (src/client/subscription.go)                       *)
(***************************************************************************)

\* The times the consumer is handed the outcome of one txn in a run.
MaxDeliveries == 1

\* The acceptors of the txns that touch a subscribed var, and their TwoFInc.
SMAcceptors == {1, 2, 3}
SMTwoFInc == 3

\* The txns: txn 1 writes the subscribed var; txn 2 writes another var and
\* reads the subscribed one at the version txn 1 wrote.
SMTxns ==
  {[Id |-> 1, readOnly |-> FALSE, read |-> 0],
   [Id |-> 2, readOnly |-> TRUE, read |-> 1]}

\* A commit outcome, by its clock element for the subscribed var.
SMOutcomes == {[clockElem |-> 1], [clockElem |-> 2]}

\* paxos.NewOutcomeAccumulator: what each acceptor has sent, and whether an
\* outcome was handed out.
NewOutcomeAccumulator(twoFInc, acceptors) ==
  [fInc |-> (twoFInc \div 2) + 1,
   acceptors |-> acceptors,
   received |-> [a \in acceptors |-> Nil],
   decidedOnce |-> FALSE]

\* OutcomeAccumulator.BallotOutcomeReceived: the outcome, the first time
\* fInc acceptors have sent it (Nil otherwise), and whether every acceptor
\* has sent this outcome.
BallotOutcomeReceived(oa, sender, outcome) ==
  LET received == [oa.received EXCEPT ![sender] = outcome]
      count == Cardinality({a \in oa.acceptors : received[a] = outcome})
      decides == ~oa.decidedOnce /\ count = oa.fInc
  IN [accumulator |-> [oa EXCEPT !.received = received,
                                 !.decidedOnce = @ \/ decides],
      outcome |-> IF decides THEN outcome ELSE Nil,
      allAgreed |-> count = Cardinality(oa.acceptors)]

\* NewSubscriptionManager for a subscription to one var created by the
\* subscribing txn (txn id 0).  sent is what the last call of
\* SubmissionOutcomeReceived sent, consumed the outcomes handed to the
\* consumer; allAgreedSeen records the txns whose subscriptionUpdate was
\* deleted with all acceptors agreeing.
NewSubscriptionManager ==
  [incomplete |-> [t \in {txn.Id : txn \in SMTxns} |-> Nil],
   cache |-> [Version |-> 0, ClockElem |-> 0],
   terminating |-> FALSE,
   recordTerminated |-> FALSE,
   sent |-> {},
   consumed |-> [t \in {txn.Id : txn \in SMTxns} |-> 0],
   allAgreedSeen |-> {}]

\* SubscriptionManager.terminate
smTerminate(s) == [s EXCEPT !.terminating = TRUE, !.sent = {}]

\* The update of the VerClock of the subscribed var by a txn's outcome.
smUpdateCache(verClock, txn, outcome) ==
  LET clockElem == IF txn.readOnly THEN outcome.clockElem - 1 ELSE outcome.clockElem
      txnId == IF txn.readOnly THEN txn.read ELSE txn.Id
  IN IF clockElem > verClock.ClockElem \/ (clockElem = verClock.ClockElem /\ verClock.Version < txnId)
     THEN [Version |-> txnId, ClockElem |-> clockElem]
     ELSE verClock

\* SubscriptionManager.SubmissionOutcomeReceived
SubmissionOutcomeReceived(s, sender, txn, outcome) ==
  LET found == s.incomplete[txn.Id] # Nil
      tsc(to) == {[msg |-> "TxnSubmissionComplete", txnId |-> txn.Id, to |-> r] : r \in to}
  IN IF ~found /\ s.terminating
     THEN [s EXCEPT !.sent = tsc({sender})]
     ELSE
       LET su == IF found THEN s.incomplete[txn.Id]
                 ELSE [acceptors |-> SMAcceptors,
                       accumulator |-> NewOutcomeAccumulator(SMTwoFInc, SMAcceptors),
                       outcome |-> Nil]
           r == BallotOutcomeReceived(su.accumulator, sender, outcome)
           su1 == [su EXCEPT !.accumulator = r.accumulator]
           s1 == IF r.outcome # Nil
                 THEN [s EXCEPT !.incomplete[txn.Id] = [su1 EXCEPT !.outcome = r.outcome],
                                !.sent = tsc(su.acceptors),
                                !.cache = smUpdateCache(@, txn, r.outcome),
                                !.recordTerminated = @ \/ s.terminating,
                                !.consumed[txn.Id] = @ + 1]
                 ELSE [s EXCEPT !.incomplete[txn.Id] = su1,
                                !.sent = IF su.outcome # Nil THEN tsc({sender}) ELSE {}]
       IN IF r.allAgreed
          THEN [s1 EXCEPT !.incomplete[txn.Id] = Nil,
                          !.allAgreedSeen = @ \cup {txn.Id}]
          ELSE s1

SMOutcomeReceived ==
  /\ \E sender \in SMAcceptors, txn \in SMTxns, outcome \in SMOutcomes :
       LET after == SubmissionOutcomeReceived(sm, sender, txn, outcome)
       IN /\ after.consumed[txn.Id] <= MaxDeliveries
          /\ sm' = after
  /\ UNCHANGED <<acc, proposed, accs, vr, cm, pm, tt, conn, cr, vc, bbe, ts, qt, vm, dm, ptc, va>>

SMTerminate ==
  /\ ~sm.terminating
  /\ sm' = smTerminate(sm)
  /\ UNCHANGED <<acc, proposed, accs, vr, cm, pm, tt, conn, cr, vc, bbe, ts, qt, vm, dm, ptc, va>>

SMNext ==
  \/ SMOutcomeReceived
  \/ SMTerminate

(***************************************************************************)
(* VERSION CACHE (src/client/versioncache.go)                              *)
(***************************************************************************)

\* Bound: the greatest reference index a capability names.
MaxIndex == 1

\* The vars of the run: x is a root, y is not known to the cache at first.
VCVarIds == {"x", "y"}

ValueCapabilities == {"none", "read", "write", "readWrite"}

\* The sorted lists of reference indices an only[...] capability carries.
VCOnlies ==
  {s \in UNION {[1..n -> 0..MaxIndex] : n \in 0..(MaxIndex + 1)} :
     \A i \in 1..(Len(s) - 1) : s[i] < s[i + 1]}

\* The references part of a capability, for reading or for writing.
VCRefsCaps == {[which |-> "all"]} \cup {[which |-> "only", only |-> s] : s \in VCOnlies}

\* cmsgs.Capabilities
VCCapabilities ==
  [value : ValueCapabilities, refsRead : VCRefsCaps, refsWrite : VCRefsCaps]

maxCapsCap ==
  [value |-> "readWrite", refsRead |-> [which |-> "all"], refsWrite |-> [which |-> "all"]]

\* NewVersionCache: the cache holds the roots, with their capabilities and
\* nothing else; cache maps a var to Nil where the Go map has no entry.
\* ensured, written and panicked record what the last call returned.
NewVersionCache(roots) ==
  [cache |-> [v \in VCVarIds |->
                IF roots[v] = Nil THEN Nil
                ELSE [txnId |-> Nil, clockElem |-> 0, caps |-> roots[v],
                      value |-> Nil, references |-> <<>>]],
   ensured |-> Nil,
   written |-> Nil,
   panicked |-> FALSE]

\* EnsureSubset's inner loop over the old list: it moves on while the old
\* index is less than the new one.
RECURSIVE skipOld(_, _, _)
skipOld(indexNew, indexOld, oldOnly) ==
  IF indexNew > indexOld /\ Len(oldOnly) > 0
  THEN skipOld(indexNew, Head(oldOnly), Tail(oldOnly))
  ELSE [indexOld |-> indexOld, oldOnly |-> oldOnly]

\* EnsureSubset's loop over the new list, from position idx (counted from 0).
RECURSIVE onlySubset(_, _, _)
onlySubset(newOnly, idx, oldOnly) ==
  IF idx >= Len(newOnly) THEN TRUE
  ELSE LET indexNew == newOnly[idx + 1]
           indexOld == Head(oldOnly)
           rest == Tail(oldOnly)
       IN IF indexNew < indexOld THEN FALSE
          ELSE IF indexNew > indexOld
               THEN LET skipped == skipOld(indexNew, indexOld, rest)
                    IN IF Len(newOnly) - idx > Len(skipped.oldOnly) THEN FALSE
                       ELSE onlySubset(newOnly, idx + 1, skipped.oldOnly)
               ELSE onlySubset(newOnly, idx + 1, rest)

\* EnsureSubset's test of the references capability, which the code has once
\* for Read and once for Write.
refsSubset(refsNew, refsOld) ==
  IF refsOld.which = "only"
  THEN IF refsNew.which # "only" THEN FALSE
       ELSE IF Len(refsNew.only) > Len(refsOld.only) THEN FALSE
            ELSE onlySubset(refsNew.only, 0, refsOld.only)
  ELSE TRUE

\* versionCache.EnsureSubset
EnsureSubset(c, vUUId, cap) ==
  IF c.cache[vUUId] # Nil
  THEN LET caps == c.cache[vUUId].caps
           valueNew == cap.value
           valueOld == caps.value
       IN IF caps = maxCapsCap THEN TRUE
          ELSE IF ~(valueNew = valueOld \/ valueNew = "none" \/ valueOld = "readWrite")
               THEN FALSE
               ELSE IF ~refsSubset(cap.refsRead, caps.refsRead) THEN FALSE
                    ELSE refsSubset(cap.refsWrite, caps.refsWrite)
  ELSE TRUE

\* Bound: the number of actions in a txn.
MaxActions == 2

\* The actions of a committed txn (msgs.Action): what is done to which var;
\* a create, write or readwrite carries the value and the references.
VCActionKinds == {"read", "write", "readwrite", "create"}

VCActions ==
  [which : VCActionKinds, varId : VCVarIds, value : {"a"}, references : {<<"x", "y">>}]

VCTxnIds == {1, 2}

VCTxns ==
  [id : VCTxnIds, actions : UNION {[1..n -> VCActions] : n \in 1..MaxActions}]

\* outcome.Commit(): the clock of the commit, read with clock.At(vUUId).
VCClock == [v \in VCVarIds |-> IF v = "x" THEN 3 ELSE 4]

\* UpdateFromCommit's loop over the actions from position idx (counted from
\* 1); a panic ends it.
RECURSIVE updateFromCommitActions(_, _, _, _)
updateFromCommitActions(c, txn, clock, idx) ==
  IF idx > Len(txn.actions) THEN c
  ELSE LET action == txn.actions[idx]
           act == action.which
           vUUId == action.varId
           found == c.cache[vUUId] # Nil
       IN IF act # "read"
          THEN IF act = "create" /\ ~found
               THEN LET created == [c EXCEPT !.cache[vUUId] =
                                      [txnId |-> [txn |-> txn.id],
                                       clockElem |-> clock[vUUId],
                                       caps |-> maxCapsCap,
                                       value |-> action.value,
                                       references |-> action.references]]
                        stamped == [created EXCEPT
                                      !.cache[vUUId].txnId = [txn |-> txn.id],
                                      !.cache[vUUId].clockElem = clock[vUUId]]
                    IN IF act = "write" \/ act = "readwrite"
                       THEN updateFromCommitActions(
                              [stamped EXCEPT !.cache[vUUId].value = action.value,
                                              !.cache[vUUId].references = action.references],
                              txn, clock, idx + 1)
                       ELSE [stamped EXCEPT !.panicked = TRUE]
               ELSE [c EXCEPT !.panicked = TRUE]
          ELSE updateFromCommitActions(c, txn, clock, idx + 1)

\* versionCache.UpdateFromCommit
UpdateFromCommit(c, txn, clock) == updateFromCommitActions(c, txn, clock, 1)

\* update.AddToClientAction's loop over the references from position idx
\* (counted from 0): a reference is set in the client's list when all may be
\* read or its index heads what is left of only; the others stay empty.
RECURSIVE clientReferences(_, _, _, _)
clientReferences(references, all, only, idx) ==
  IF idx >= Len(references) THEN <<>>
  ELSE IF all
       THEN <<references[idx + 1]>> \o clientReferences(references, all, only, idx + 1)
       ELSE IF Len(only) > 0 /\ Head(only) = idx
            THEN <<references[idx + 1]>>
                   \o clientReferences(references, all, Tail(only), idx + 1)
            ELSE <<"">> \o clientReferences(references, all, only, idx + 1)

\* update.AddToClientAction: what the client is sent for a cached var.
AddToClientAction(cached, varUUId) ==
  IF cached.txnId = Nil
  THEN [varId |-> varUUId, which |-> "delete"]
  ELSE [varId |-> varUUId, which |-> "write",
        value |-> IF cached.caps.value \in {"read", "readWrite"} THEN cached.value ELSE "",
        references |->
          clientReferences(cached.references, cached.caps.refsRead.which = "all",
                           IF cached.caps.refsRead.which = "all" THEN <<>>
                           ELSE cached.caps.refsRead.only, 0)]

\* ---- actions ---------------------------------------------------------------

\* What a call leaves behind is what it returned.
VCHandling(c) == [c EXCEPT !.ensured = Nil, !.written = Nil]

\* A client message names a var with a capability.
VCEnsureSubset(vUUId, cap) ==
  /\ ~vc.panicked
  /\ vc' = [VCHandling(vc) EXCEPT
              !.ensured = [vUUId |-> vUUId, result |-> EnsureSubset(vc, vUUId, cap)]]
  /\ UNCHANGED <<acc, proposed, accs, vr, cm, pm, tt, conn, cr, bbe, ts, qt, vm, sm, dm, ptc, va>>

\* The outcome of a txn the client submitted is a commit.
VCUpdateFromCommit(txn) ==
  /\ ~vc.panicked
  /\ vc' = [UpdateFromCommit(VCHandling(vc), txn, VCClock) EXCEPT !.written = txn]
  /\ UNCHANGED <<acc, proposed, accs, vr, cm, pm, tt, conn, cr, bbe, ts, qt, vm, sm, dm, ptc, va>>

VCNext ==
  \/ \E txn \in VCTxns : VCUpdateFromCommit(txn)
  \/ \E vUUId \in VCVarIds, cap \in VCCapabilities : VCEnsureSubset(vUUId, cap)
(***************************************************************************)
(* VAR MANAGER AND TOPOLOGY CHANGES (src/txnengine/varmanager.go)          *)
(***************************************************************************)

\* The calls of VarManager.TopologyChanged in a run.
MaxVMTopologies == 3

\* The topology var and an ordinary var.
VMVarIds == {"topology", "x"}
TopologyVarUUId == "topology"

\* The topologies the var manager is given, by what it reads of them: nil,
\* or whether barriers 1 and 2 of the change under way are reached for this
\* RM.  Barrier 2 is not reached before barrier 1.
VMTopologies ==
  {Nil,
   [NextBarrierReached1 |-> FALSE, NextBarrierReached2 |-> FALSE],
   [NextBarrierReached1 |-> TRUE, NextBarrierReached2 |-> FALSE],
   [NextBarrierReached1 |-> TRUE, NextBarrierReached2 |-> TRUE]}

\* The states of an active var, by what isOnDisk reads: on disk; with a
\* write in progress; written, with txns still in its current frame.
VMVarStates ==
  {[writeInProgress |-> FALSE, curFrameIsOnDisk |-> TRUE, empty |-> TRUE],
   [writeInProgress |-> TRUE, curFrameIsOnDisk |-> FALSE, empty |-> FALSE],
   [writeInProgress |-> FALSE, curFrameIsOnDisk |-> TRUE, empty |-> FALSE]}

\* Var.isOnDisk
vmIsOnDisk(v) == ~v.writeInProgress /\ v.curFrameIsOnDisk /\ v.empty

\* topology == nil || !topology.NextBarrierReached1(vm.RMId)
vmBarrier1NotReached(topology) ==
  IF topology = Nil THEN TRUE ELSE ~topology.NextBarrierReached1

\* The var manager after NewVarManager's closure has run with the topology
\* of the time.  onDisk is the call of TopologyChanged whose done is held (0
\* for none).  calls[n] is the n-th call of TopologyChanged: its topology,
\* where its closure is ("queued", "executed", or "refused" by the
\* executor), whether its resultChan is closed, whether its go-routine is
\* still waiting, and the results its done was called with, in order.
\* terminated: the executor has stopped.
NewVMState(topology) ==
  [Topology |-> topology,
   RollAllowed |-> vmBarrier1NotReached(topology),
   onDisk |-> 0,
   active |-> [id \in VMVarIds |-> Nil],
   calls |-> << >>,
   terminated |-> FALSE]

\* done(result) of call n
vmDone(s, n, result) == [s EXCEPT !.calls[n].results = Append(@, result)]

\* doneWrapped of call n
vmDoneWrapped(s, n, result) ==
  vmDone([s EXCEPT !.calls[n].resultChanClosed = TRUE], n, result)

\* checkAllDisk that answers without looking at the vars.
vmCheckAllDiskAtOnce(s) ==
  IF s.onDisk = 0 THEN s
  ELSE vmDoneWrapped([s EXCEPT !.onDisk = 0, !.RollAllowed = FALSE], s.onDisk, TRUE)

\* VarManager.checkAllDisk
vmCheckAllDisk(s) ==
  IF s.onDisk = 0 THEN s
  ELSE IF \E id \in VMVarIds :
            /\ s.active[id] # Nil
            /\ id # TopologyVarUUId
            /\ IF s.active[id] # Nil THEN ~vmIsOnDisk(s.active[id]) ELSE FALSE
       THEN s
       ELSE vmDoneWrapped([s EXCEPT !.onDisk = 0, !.RollAllowed = FALSE], s.onDisk, TRUE)

\* The closure VarManager.TopologyChanged enqueues, for call n.
vmTopologyChangedExec(s, n) ==
  LET topology == s.calls[n].topology
      dropped == IF s.onDisk # 0
                 THEN vmDoneWrapped([s EXCEPT !.onDisk = 0], s.onDisk, FALSE)
                 ELSE s
      changed == [dropped EXCEPT
                    !.calls[n].closure = "executed",
                    !.Topology = topology,
                    !.RollAllowed = IF @ THEN @ ELSE vmBarrier1NotReached(topology)]
      goingToDisk == IF topology = Nil THEN FALSE
                     ELSE topology.NextBarrierReached1 /\ ~topology.NextBarrierReached2
  IN IF goingToDisk
     THEN vmCheckAllDisk([changed EXCEPT !.onDisk = n])
     ELSE vmDoneWrapped(changed, n, TRUE)

\* VarManager.TopologyChanged: the closure is enqueued and a go-routine waits
\* for its result or for the end of the executor; an executor that has
\* stopped refuses the closure and done is called with false.
vmTopologyChanged(s, topology) ==
  LET n == Len(s.calls) + 1
      call == [topology |-> topology, closure |-> "queued", resultChanClosed |-> FALSE,
               waiting |-> TRUE, results |-> << >>]
  IN IF s.terminated
     THEN vmDone([s EXCEPT !.calls = Append(@, [call EXCEPT !.closure = "refused",
                                                            !.waiting = FALSE])],
                 n, FALSE)
     ELSE [s EXCEPT !.calls = Append(@, call)]

\* The go-routine of call n that does not look at resultChan once the
\* executor has stopped.
vmWaitUnchecked(s, n) ==
  LET woken == [s EXCEPT !.calls[n].waiting = FALSE]
  IN IF s.terminated THEN vmDone(woken, n, FALSE) ELSE woken

\* The go-routine of call n wakes up: with the result in, it has nothing to
\* do; with the executor stopped and no result, it calls done with false.
vmWait(s, n) ==
  LET woken == [s EXCEPT !.calls[n].waiting = FALSE]
  IN IF s.calls[n].resultChanClosed THEN woken ELSE vmDone(woken, n, FALSE)

\* VarManager.ApplyToVar for a var that is or becomes active: fun leaves the
\* var as given (Nil: SetInactive was called), then checkAllDisk.
vmApplyToVar(s, id, v) == vmCheckAllDisk([s EXCEPT !.active[id] = v])

\* The first call whose closure the executor has still to run (0 for none).
vmNextQueued(s) ==
  LET queued == {n \in 1..Len(s.calls) : s.calls[n].closure = "queued"}
  IN IF queued = {} THEN 0 ELSE CHOOSE n \in queued : \A m \in queued : n <= m

VMTopologyChanged ==
  /\ Len(vm.calls) < MaxVMTopologies
  /\ \E topology \in VMTopologies : vm' = vmTopologyChanged(vm, topology)
  /\ UNCHANGED <<acc, proposed, accs, vr, cm, pm, tt, conn, cr, vc, bbe, ts, qt, sm, dm, ptc, va>>

VMTopologyChangedExec ==
  /\ ~vm.terminated
  /\ vmNextQueued(vm) # 0
  /\ vm' = vmTopologyChangedExec(vm, vmNextQueued(vm))
  /\ UNCHANGED <<acc, proposed, accs, vr, cm, pm, tt, conn, cr, vc, bbe, ts, qt, sm, dm, ptc, va>>

VMWait ==
  /\ \E n \in 1..Len(vm.calls) :
       /\ vm.calls[n].waiting
       /\ vm.calls[n].resultChanClosed \/ vm.terminated
       /\ vm' = vmWait(vm, n)
  /\ UNCHANGED <<acc, proposed, accs, vr, cm, pm, tt, conn, cr, vc, bbe, ts, qt, sm, dm, ptc, va>>

\* An inactive var becomes active, an active var changes, or an active var
\* with no write in progress becomes inactive.
VMApplyToVar ==
  /\ ~vm.terminated
  /\ \E id \in VMVarIds, v \in VMVarStates \cup {Nil} :
       /\ v # vm.active[id]
       /\ v = Nil => IF vm.active[id] # Nil THEN ~vm.active[id].writeInProgress ELSE FALSE
       /\ vm' = vmApplyToVar(vm, id, v)
  /\ UNCHANGED <<acc, proposed, accs, vr, cm, pm, tt, conn, cr, vc, bbe, ts, qt, sm, dm, ptc, va>>

VMTerminate ==
  /\ ~vm.terminated
  /\ vm' = [vm EXCEPT !.terminated = TRUE]
  /\ UNCHANGED <<acc, proposed, accs, vr, cm, pm, tt, conn, cr, vc, bbe, ts, qt, sm, dm, ptc, va>>

VMNext ==
  \/ VMTopologyChanged
  \/ VMTopologyChangedExec
  \/ VMWait
  \/ VMApplyToVar
  \/ VMTerminate

(***************************************************************************)
(* BINARY BACKOFF ENGINE (src/txnengine/var.go, src/consts.go)             *)
(***************************************************************************)

\* Durations are counted in milliseconds.
SubmissionMinSubmitDelay == 2
SubmissionMaxSubmitDelay == 2000

\* rng.Intn(n) returns some number of [0, n): the least ones, the greatest
\* ones and the middle one stand for all of them.
Intn(n) == {k \in {0, 1, 2, 3, n \div 2, n - 2, n - 1} : 0 <= k /\ k < n}

\* The roundToZero arguments of Shrink.
RoundToZeros == {0, 1, 2}

\* NewBinaryBackoffEngine (min > 0); last and returned record the last call
\* and what it returned.
NewBinaryBackoffEngine(min, max) ==
  [min |-> min, max |-> max, period |-> min, Cur |-> 0,
   last |-> "none", returned |-> 0]

\* Advance that lets the period double without limit.
AdvanceUncapped(e, drawn) ==
  [e EXCEPT !.period = e.period * 2, !.Cur = drawn,
            !.last = "Advance", !.returned = e.Cur]

\* BinaryBackoffEngine.Advance, drawn being what the rng returns.
Advance(e, drawn) ==
  LET doubled == e.period * 2
      period == IF doubled > e.max THEN e.max ELSE doubled
  IN [e EXCEPT !.period = period, !.Cur = drawn,
               !.last = "Advance", !.returned = e.Cur]

\* BinaryBackoffEngine.Shrink
Shrink(e, roundToZero, drawn) ==
  LET halved == e.period \div 2
      period == IF halved < e.min THEN e.min ELSE halved
  IN [e EXCEPT !.period = period,
               !.Cur = IF drawn <= roundToZero THEN 0 ELSE drawn,
               !.last = "Shrink", !.returned = 0]

\* The period Advance and Shrink draw from.
AdvancePeriod(e) == Advance(e, 0).period

ShrinkPeriod(e) == Shrink(e, 0, 0).period

\* ---- actions ---------------------------------------------------------------

\* The outcome is Abort(Resubmit): the submitter backs off.
BBEAdvance ==
  /\ \E drawn \in Intn(AdvancePeriod(bbe)) : bbe' = Advance(bbe, drawn)
  /\ UNCHANGED <<acc, proposed, accs, vr, cm, pm, tt, conn, cr, vc, ts, qt, vm, sm, dm, ptc, va>>

BBEShrink ==
  /\ \E roundToZero \in RoundToZeros, drawn \in Intn(ShrinkPeriod(bbe)) :
       bbe' = Shrink(bbe, roundToZero, drawn)
  /\ UNCHANGED <<acc, proposed, accs, vr, cm, pm, tt, conn, cr, vc, ts, qt, vm, sm, dm, ptc, va>>

BBENext ==
  \/ BBEAdvance
  \/ BBEShrink

\* ---------------------------------------------------------------------
\* network/protocols.go: ConnectionManager.DispatchMessage for a
\* SubmissionOutcome, with the table of client connections it consults.
\* The node is the submitter of the acceptors' txn.
\* ---------------------------------------------------------------------

\* The txn ids an outcome can carry: the connection count and the boot
\* count of the client connection that submitted the txn.
DispatchTxnIds == [connectionCount : ClientConnNumbers, bootCount : {0, 1, 2}]

\* The id of the acceptors' txn.
SubmittedTxnId == [connectionCount |-> 1, bootCount |-> TxnSubmitterBootCount]

\* The connection manager of a node in its incarnation bootCount: no
\* client registered, nothing received, nothing sent.  lost are the
\* connection numbers of the clients that have gone; inbox the
\* SubmissionOutcomes on their way to the node; sent the messages the node
\* has handed to a OneShotSender; forwarded the calls of
\* SubmissionOutcomeReceived on client connections.
NewDispatch(bootCount) ==
  [BootCount         |-> bootCount,
   connCountToClient |-> {},
   lost              |-> {},
   inbox             |-> {},
   sent              |-> {},
   forwarded         |-> {}]

\* clientEstablished, for a connection the node lets through.
dispatchClientEstablished(d, connNumber) ==
  [d EXCEPT !.connCountToClient = @ \cup {connNumber}]

\* ClientLost
ClientLost(d, connNumber) ==
  [d EXCEPT !.connCountToClient = @ \ {connNumber}, !.lost = @ \cup {connNumber}]

\* GetClient that looks the connection number up whatever the boot count.
GetClientAnyBoot(d, bootNumber, connNumber) ==
  IF connNumber \in d.connCountToClient THEN [connNumber |-> connNumber] ELSE Nil

\* GetClient
GetClient(d, bootNumber, connNumber) ==
  IF bootNumber # d.BootCount /\ bootNumber # 0 THEN Nil
  ELSE IF connNumber \in d.connCountToClient THEN [connNumber |-> connNumber]
  ELSE Nil

\* DispatchMessage, case MESSAGE_SUBMISSIONOUTCOME
DispatchSubmissionOutcome(d, sender, txnId) ==
  LET client == GetClient(d, txnId.bootCount, txnId.connectionCount)
  IN IF client = Nil
     THEN [d EXCEPT !.sent = @ \cup {[msg |-> "TxnSubmissionComplete",
                                      txnId |-> txnId, to |-> sender]}]
     ELSE [d EXCEPT !.forwarded = @ \cup {[conn |-> client.connNumber,
                                           sender |-> sender, txnId |-> txnId]}]

\* A client connects; the listener gives every connection of an incarnation
\* a number of its own.
DClientEstablished(connNumber) ==
  /\ connNumber \notin dm.connCountToClient /\ connNumber \notin dm.lost
  /\ dm' = dispatchClientEstablished(dm, connNumber)
  /\ UNCHANGED <<acc, proposed, accs, vr, cm, pm, tt, conn, cr, vc, bbe, ts, qt, vm, sm, ptc, va>>

DClientLost(connNumber) ==
  /\ connNumber \in dm.connCountToClient
  /\ dm' = ClientLost(dm, connNumber)
  /\ UNCHANGED <<acc, proposed, accs, vr, cm, pm, tt, conn, cr, vc, bbe, ts, qt, vm, sm, ptc, va>>

\* The SubmissionOutcome the 2B sender of acceptor a has handed to the
\* connection to the submitter travels to the submitter.
DOutcomeSent(a) ==
  /\ a \in accs
  /\ \E f \in acc[a].firstSent : f.kind = "SubmissionOutcome"
  /\ dm' = [dm EXCEPT !.inbox = @ \cup {[sender |-> a, txnId |-> SubmittedTxnId]}]
  /\ UNCHANGED <<acc, proposed, accs, vr, cm, pm, tt, conn, cr, vc, bbe, ts, qt, vm, sm, ptc, va>>

DDispatchMessage ==
  /\ \E m \in dm.inbox :
        dm' = DispatchSubmissionOutcome([dm EXCEPT !.inbox = @ \ {m}], m.sender, m.txnId)
  /\ UNCHANGED <<acc, proposed, accs, vr, cm, pm, tt, conn, cr, vc, bbe, ts, qt, vm, sm, ptc, va>>

\* A TxnSubmissionComplete of the node reaches the acceptor it was sent to;
\* the acceptor dispatcher drops it when the acceptor is gone.
DDeliverTSC ==
  /\ \E m \in dm.sent :
        /\ dm' = [dm EXCEPT !.sent = @ \ {m}]
        /\ acc' = IF Live(m.to)
                  THEN [acc EXCEPT ![m.to] = Quiet(TxnSubmissionCompleteReceived(@, TxnSubmitter))]
                  ELSE acc
  /\ UNCHANGED <<proposed, accs, vr, cm, pm, tt, conn, cr, vc, bbe, ts, qt, vm, sm, ptc, va>>

DispatchEnvNext ==
  \/ \E connNumber \in ClientConnNumbers : DClientEstablished(connNumber)
  \/ \E connNumber \in ClientConnNumbers : DClientLost(connNumber)
  \/ \E a \in Acceptors : DOutcomeSent(a)
  \/ DDispatchMessage
  \/ DDeliverTSC

(***************************************************************************)
(* PROPOSER MANAGER AND TOPOLOGY CHANGES (src/paxos/proposermanager.go)    *)
(***************************************************************************)

\* The calls of TopologyChanged on the var manager and on the proposer
\* manager in a run.
MaxTopologyChanges == 2

\* The topologies the proposer manager is given, by what it reads of them:
\* whether a next configuration is under way.
TCTopologies == {[NextConfiguration |-> Nil], [NextConfiguration |-> [Version |-> 1]]}

\* What checkAllDisk reads of a proposer.
TCProposers == [TLCDone : BOOLEAN, IsTopologyTxn : BOOLEAN]

\* The proposer manager with no proposer and no topology change yet.
\* onDisk is the call of TopologyChanged whose pmTopologyChanged.done is
\* held (0 for none).  calls[n] is the n-th call of TopologyChanged: its
\* topology, where its message is ("queued", "executed", or "refused" by
\* the mailbox), whether the message is closed, its outcome, whether the
\* go-routine of the call still waits, and the results the caller's done
\* was called with, in order.  terminated: the actor has stopped.
NewTCState ==
  [onDisk |-> 0,
   proposer |-> Nil,
   calls |-> << >>,
   terminated |-> FALSE]

\* pmTopologyChanged.done of call n
tcDone(s, n, result) ==
  [s EXCEPT !.calls[n].outcome = result, !.calls[n].closed = TRUE]

\* ProposerManager.checkAllDisk
tcCheckAllDisk(s) ==
  IF s.onDisk = 0 THEN s
  ELSE IF s.proposer # Nil /\ ~(IF s.proposer # Nil
                                THEN s.proposer.TLCDone \/ s.proposer.IsTopologyTxn
                                ELSE TRUE)
       THEN s
       ELSE tcDone([s EXCEPT !.onDisk = 0], s.onDisk, TRUE)

\* pmTopologyChanged.Exec of call n
tcExec(s, n) ==
  LET topology == s.calls[n].topology
      dropped == IF s.onDisk # 0 THEN tcDone([s EXCEPT !.onDisk = 0], s.onDisk, FALSE)
                 ELSE s
      changed == [dropped EXCEPT !.calls[n].msg = "executed"]
  IN IF topology.NextConfiguration = Nil
     THEN tcDone(changed, n, TRUE)
     ELSE tcCheckAllDisk([changed EXCEPT !.onDisk = n])

\* The caller's done(result) of call n
tcCallerDone(s, n, result) == [s EXCEPT !.calls[n].results = Append(@, result)]

\* ProposerManager.TopologyChanged: the message is enqueued and a go-routine
\* waits for it; a mailbox that has stopped refuses the message and done is
\* called with false.
tcTopologyChanged(s, topology) ==
  LET n == Len(s.calls) + 1
      call == [topology |-> topology, msg |-> "queued", closed |-> FALSE,
               outcome |-> FALSE, waiting |-> TRUE, results |-> << >>]
  IN IF s.terminated
     THEN tcCallerDone([s EXCEPT !.calls = Append(@, [call EXCEPT !.msg = "refused",
                                                                  !.waiting = FALSE])],
                       n, FALSE)
     ELSE [s EXCEPT !.calls = Append(@, call)]

\* The go-routine of call n that takes the message's outcome whatever Wait
\* returns.
tcWaitIgnored(s, n, waited) ==
  tcCallerDone([s EXCEPT !.calls[n].waiting = FALSE], n, s.calls[n].outcome)

\* go done(tc.Wait() && tc.outcome): Wait has returned waited.
tcWait(s, n, waited) ==
  tcCallerDone([s EXCEPT !.calls[n].waiting = FALSE], n, waited /\ s.calls[n].outcome)

\* The first call whose message the actor has still to handle (0 for none).
tcNextQueued(s) ==
  LET queued == {n \in 1..Len(s.calls) : s.calls[n].msg = "queued"}
  IN IF queued = {} THEN 0 ELSE CHOOSE n \in queued : \A m \in queued : n <= m

\* The calls both managers have had.
TopologyChanges == Len(vm.calls) + Len(ptc.calls)

TCTopologyChanged ==
  /\ TopologyChanges < MaxTopologyChanges
  /\ \E topology \in TCTopologies : ptc' = tcTopologyChanged(ptc, topology)
  /\ UNCHANGED <<acc, proposed, accs, vr, cm, pm, tt, conn, cr, vc, bbe, ts, qt, vm, sm, dm, va>>

TCExec ==
  /\ ~ptc.terminated
  /\ tcNextQueued(ptc) # 0
  /\ ptc' = tcExec(ptc, tcNextQueued(ptc))
  /\ UNCHANGED <<acc, proposed, accs, vr, cm, pm, tt, conn, cr, vc, bbe, ts, qt, vm, sm, dm, va>>

\* Wait returns true for a closed message and false for a stopped actor;
\* with both it returns either.
TCWait ==
  /\ \E n \in 1..Len(ptc.calls) :
       /\ ptc.calls[n].waiting
       /\ \E waited \in {w \in {TRUE} : ptc.calls[n].closed} \cup
                        {w \in {FALSE} : ptc.terminated} :
            ptc' = tcWait(ptc, n, waited)
  /\ UNCHANGED <<acc, proposed, accs, vr, cm, pm, tt, conn, cr, vc, bbe, ts, qt, vm, sm, dm, va>>

\* A proposer is made, completes or goes; the handlers that change the
\* proposers call checkAllDisk.
TCProposerChanged ==
  /\ ~ptc.terminated
  /\ \E p \in TCProposers \cup {Nil} :
       /\ p # ptc.proposer
       /\ ptc' = tcCheckAllDisk([ptc EXCEPT !.proposer = p])
  /\ UNCHANGED <<acc, proposed, accs, vr, cm, pm, tt, conn, cr, vc, bbe, ts, qt, vm, sm, dm, va>>

TCTerminate ==
  /\ ~ptc.terminated
  /\ ptc' = [ptc EXCEPT !.terminated = TRUE]
  /\ UNCHANGED <<acc, proposed, accs, vr, cm, pm, tt, conn, cr, vc, bbe, ts, qt, vm, sm, dm, va>>

\* The var manager is given a topology.
DoneVMTopologyChanged ==
  /\ TopologyChanges < MaxTopologyChanges
  /\ VMTopologyChanged

\* Var x is written, or goes once it is written.
DoneVMApplyToVar ==
  /\ ~vm.terminated
  /\ \E v \in VMVarStates \cup {Nil} :
       /\ v # vm.active["x"]
       /\ v = Nil => IF vm.active["x"] # Nil THEN ~vm.active["x"].writeInProgress ELSE FALSE
       /\ vm' = vmApplyToVar(vm, "x", v)
  /\ UNCHANGED <<acc, proposed, accs, vr, cm, pm, tt, conn, cr, vc, bbe, ts, qt, sm, dm, ptc, va>>

DoneNext ==
  \/ DoneVMTopologyChanged
  \/ VMTopologyChangedExec
  \/ VMWait
  \/ DoneVMApplyToVar
  \/ VMTerminate
  \/ TCTopologyChanged
  \/ TCExec
  \/ TCWait
  \/ TCProposerChanged
  \/ TCTerminate

(***************************************************************************)
(* VARS AND THE ACTIVE TABLE (src/txnengine/varmanager.go, var.go)         *)
(***************************************************************************)

\* The vars of the node.
VLVarIds == {"x", "y"}

\* What the var manager holds for one VarUUId.  objs are the Var objects
\* made for it, in order of creation; the index of an object is its
\* identity.  active is the object in vm.active (0 for none).  Of an
\* object: writeInProgress is "nil", "makeInactive" (the closure of a write
\* under way) or "write" (the closure that writes a later frame), and
\* frameIdle is what curFrame.isIdle() returns.  Vars: the var has a record
\* on disk.  kv are the objects with a read-write transaction queued, exe
\* those whose completion is queued on the executor.  panic is the panic
\* that has stopped the node ("" for none).
NewVLState ==
  [active |-> 0,
   objs   |-> << >>,
   Vars   |-> FALSE,
   kv     |-> {},
   exe    |-> {},
   panic  |-> ""]

\* NewVar, VarFromData: a var whose frame has no action.
vlNewVar == [writeInProgress |-> "nil", frameIdle |-> TRUE]

\* Var.isIdle
vlIsIdle(v) == v.writeInProgress = "nil" /\ v.frameIdle

\* VarManager.SetInactive of object o
vlSetInactive(s, o) ==
  IF s.active = 0 THEN [s EXCEPT !.panic = "inactive but doesn't exist"]
  ELSE IF s.active # o THEN [s EXCEPT !.panic = "inactive but different var"]
  ELSE [s EXCEPT !.active = 0]

\* maybeMakeInactive that asks the frame only.
vlMaybeMakeInactiveFrameOnly(s, o) ==
  IF s.objs[o].frameIdle THEN vlSetInactive(s, o) ELSE s

\* Var.maybeMakeInactive of object o
vlMaybeMakeInactive(s, o) ==
  IF vlIsIdle(s.objs[o]) THEN vlSetInactive(s, o) ELSE s

\* Var.maybeWriteFrame of object o
vlMaybeWriteFrame(s, o) ==
  IF s.objs[o].writeInProgress # "nil"
  THEN [s EXCEPT !.objs[o].writeInProgress = "write"]
  ELSE [s EXCEPT !.objs[o].writeInProgress = "makeInactive", !.kv = @ \cup {o}]

\* VarManager.find, then NewVar when createIfMissing: the state with the
\* var found, restored or made in the active table.
vlFind(s, createIfMissing) ==
  IF s.active # 0 THEN s
  ELSE IF s.Vars \/ createIfMissing
       THEN [s EXCEPT !.objs = Append(@, vlNewVar), !.active = Len(s.objs) + 1]
       ELSE s

\* The functions ApplyToVar is given.  A txn is received: the frame takes
\* the action.  An outcome is received for an action the frame has not
\* learnt: maybeMakeInactive.  An outcome or a global completion reaches
\* the frame: the frame is idle afterwards or not, and asks the var to
\* maybeMakeInactive or not.  A write commits: SetCurFrame with a new
\* frame, idle or not.  written: the closure of applyToSelf for object obj.
VLFuns ==
  [kind : {"ReceiveTxn", "ReceiveTxnOutcomeNotLearnt"}]
  \cup [kind : {"frame"}, frameIdle : BOOLEAN, maybeMakeInactive : BOOLEAN]
  \cup [kind : {"SetCurFrame"}, frameIdle : BOOLEAN]

\* fun(v) for the var v that ApplyToVar has found
vlFun(s, fun, v) ==
  CASE fun.kind = "ReceiveTxn" -> [s EXCEPT !.objs[v].frameIdle = FALSE]
    [] fun.kind = "ReceiveTxnOutcomeNotLearnt" -> vlMaybeMakeInactive(s, v)
    [] fun.kind = "frame" ->
         LET s1 == [s EXCEPT !.objs[v].frameIdle = fun.frameIdle]
         IN IF fun.maybeMakeInactive THEN vlMaybeMakeInactive(s1, v) ELSE s1
    [] fun.kind = "SetCurFrame" ->
         vlMaybeWriteFrame([s EXCEPT !.objs[v].frameIdle = fun.frameIdle], v)
    [] fun.kind = "written" ->
         \* applyToSelf
         IF v = 0 THEN [s EXCEPT !.panic = "not found"]
         ELSE IF v # fun.obj THEN vlMaybeMakeInactive(s, v)
         ELSE LET wip == s.objs[v].writeInProgress
                  s1 == [s EXCEPT !.objs[v].writeInProgress = "nil"]
              IN IF wip = "write" THEN vlMaybeWriteFrame(s1, v)
                 ELSE vlMaybeMakeInactive(s1, v)

\* VarManager.ApplyToVar
vlApplyToVar(s, fun, createIfMissing) ==
  LET s1 == vlFind(s, createIfMissing)
      v == s1.active
      s2 == vlFun(s1, fun, v)
  IN IF s2.panic # "" THEN s2
     ELSE IF v # 0 /\ s2.active = 0 /\ ~(IF v # 0 THEN vlIsIdle(s2.objs[v]) ELSE TRUE)
     THEN [s2 EXCEPT !.panic = "Var is not active, yet is not idle!"]
     ELSE s2

VLRunning == \A id \in VLVarIds : va[id].panic = ""

\* The var dispatcher applies a function of a txn to the var; but for a
\* new txn the var is active or on disk.
VLApplyToVar(id) ==
  /\ VLRunning
  /\ \E fun \in VLFuns :
       /\ fun.kind # "ReceiveTxn" => va[id].active # 0 \/ va[id].Vars
       /\ va[id].active = 0 => Len(va[id].objs) < MaxVarObjects
       /\ va' = [va EXCEPT ![id] = vlApplyToVar(@, fun, fun.kind = "ReceiveTxn")]
  /\ UNCHANGED <<acc, proposed, accs, vr, cm, pm, tt, conn, cr, vc, bbe, ts, qt, vm, sm, dm, ptc>>

\* The read-write transaction of a write runs: the var's record is on disk
\* and the go-routine of the write enqueues the closure of applyToSelf.
VLKVExecute(id) ==
  /\ VLRunning
  /\ \E o \in va[id].kv :
       va' = [va EXCEPT ![id].kv = @ \ {o}, ![id].exe = @ \cup {o}, ![id].Vars = TRUE]
  /\ UNCHANGED <<acc, proposed, accs, vr, cm, pm, tt, conn, cr, vc, bbe, ts, qt, vm, sm, dm, ptc>>

\* The executor runs the closure of applyToSelf for a completed write.
VLWritten(id) ==
  /\ VLRunning
  /\ \E o \in va[id].exe :
       /\ va[id].active = 0 /\ va[id].Vars => Len(va[id].objs) < MaxVarObjects
       /\ va' = [va EXCEPT ![id] = vlApplyToVar([@ EXCEPT !.exe = @ \ {o}],
                                                [kind |-> "written", obj |-> o], FALSE)]
  /\ UNCHANGED <<acc, proposed, accs, vr, cm, pm, tt, conn, cr, vc, bbe, ts, qt, vm, sm, dm, ptc>>

VarLifeNext ==
  \/ \E id \in VLVarIds : VLApplyToVar(id)
  \/ \E id \in VLVarIds : VLKVExecute(id)
  \/ \E id \in VLVarIds : VLWritten(id)
(***************************************************************************)
(* VERSION CACHE: UpdateFromAbort and mergeCaps                            *)
(* (src/client/versioncache.go)                                            *)
(***************************************************************************)

\* Bound: the greatest number of updates in the list of one abort.
MaxUpdates == 2

\* Only() of a references capability: the list of an only[...]; read from an
\* all it is the empty list, the pointer of the union being null.
onlyOf(refs) == IF refs.which = "only" THEN refs.only ELSE <<>>

\* mergeOnlies: the sorted merge of two sorted lists, an index they share
\* taken once.
RECURSIVE mergeOnlies(_, _)
mergeOnlies(a, b) ==
  IF Len(a) > 0 /\ Len(b) > 0
  THEN LET aIndex == Head(a)
           bIndex == Head(b)
       IN IF aIndex < bIndex THEN <<aIndex>> \o mergeOnlies(Tail(a), b)
          ELSE IF aIndex > bIndex THEN <<bIndex>> \o mergeOnlies(a, Tail(b))
               ELSE <<aIndex>> \o mergeOnlies(Tail(a), Tail(b))
  ELSE IF Len(a) > 0 THEN a ELSE b

\* cached.mergeCaps: a is c.caps, b the capability merged in; same tells
\* that b is the very pointer c.caps holds.  The result holds the new c.caps
\* and the value returned.  (b is the address of a copy the caller made, so
\* it is never the pointer maxCapsCap; an a that equals the maximal
\* capability leaves by either path with the same result.)
mergeCaps(a, b, same) ==
  IF same THEN [caps |-> a, gainedRead |-> FALSE]
  ELSE IF a = maxCapsCap THEN [caps |-> maxCapsCap, gainedRead |-> FALSE]
  ELSE IF a = Nil
  THEN [caps |-> b, gainedRead |-> b.value = "read" \/ b.value = "readWrite"]
  ELSE IF b = Nil THEN [caps |-> a, gainedRead |-> FALSE]
  ELSE
    LET aValue == a.value
        bValue == b.value
        valueRead == aValue = "readWrite" \/ aValue = "read"
                       \/ bValue = "readWrite" \/ bValue = "read"
        valueWrite == aValue = "readWrite" \/ aValue = "write"
                        \/ bValue = "readWrite" \/ bValue = "write"
        refsReadAll == a.refsRead.which = "all" \/ b.refsRead.which = "only"
        refsWriteAll == a.refsWrite.which = "all" \/ b.refsWrite.which = "all"
        gainedRead == valueRead /\ aValue # "read" /\ aValue # "readWrite"
    IN IF valueRead /\ valueWrite /\ refsReadAll /\ refsWriteAll
       THEN [caps |-> maxCapsCap, gainedRead |-> gainedRead]
       ELSE [caps |->
               [value |-> IF valueRead /\ valueWrite THEN "readWrite"
                          ELSE IF valueWrite THEN "write"
                          ELSE IF valueRead THEN "write"
                          ELSE "none",
                refsRead |-> IF refsReadAll THEN [which |-> "all"]
                             ELSE [which |-> "only",
                                   only |-> mergeOnlies(onlyOf(a.refsRead),
                                                        onlyOf(b.refsRead))],
                refsWrite |-> IF refsWriteAll THEN [which |-> "all"]
                              ELSE [which |-> "only",
                                    only |-> mergeOnlies(onlyOf(a.refsWrite),
                                                         onlyOf(b.refsWrite))]],
             gainedRead |-> gainedRead]

\* reachableReferences' loop over the references from position index (counted
\* from 0).
RECURSIVE reachableFrom(_, _, _, _)
reachableFrom(references, all, only, index) ==
  IF index >= Len(references) THEN <<>>
  ELSE IF all
       THEN <<references[index + 1]>> \o reachableFrom(references, all, only, index + 1)
       ELSE IF Len(only) = 0 THEN <<>>
            ELSE IF index = Head(only)
                 THEN <<references[index + 1]>>
                        \o reachableFrom(references, all, Tail(only), index + 1)
                 ELSE reachableFrom(references, all, only, index + 1)

\* cached.reachableReferences
reachableReferences(c) ==
  IF c.caps = Nil THEN <<>>
  ELSE IF Len(c.references) = 0 THEN <<>>
       ELSE reachableFrom(c.references, c.caps.refsRead.which = "all",
                          onlyOf(c.caps.refsRead), 0)

\* ---- the updates of an abort ----------------------------------------------

\* The capability a reference of these runs carries: the value may be read
\* and every reference of it may be read.
AbortRefCaps ==
  {[value |-> "read", refsRead |-> [which |-> "all"],
    refsWrite |-> [which |-> "only", only |-> <<>>]]}

\* The references a written value carries: none, or one to y.
AbortReferences == {<<>>} \cup {<<[id |-> "y", caps |-> caps]>> : caps \in AbortRefCaps}

\* msgs.Action of an update: a write with its value and references, or a
\* missing, which tells of a write whose value is not known.
AbortActions ==
  [which : {"write"}, varId : VCVarIds, value : {"a"}, references : AbortReferences]
    \cup [which : {"missing"}, varId : VCVarIds]

AbortTxnIds == {1, 2, 3}

\* clock.At(vUUId) of the update of a txn: a txn has one clock, so that the
\* same txn never comes with two clock elements.  Txns 1 and 3 meet at the
\* same element, txn 2 lies below them.
AbortClockElem(txnId) == IF txnId = 2 THEN 1 ELSE 2

\* msgs.Update: the txn and its actions (one in these runs).
AbortUpdates == [txnId : AbortTxnIds, actions : [1..1 -> AbortActions]]

WriteUpdates == {u \in AbortUpdates : u.actions[1].which = "write"}

UpdateLists == UNION {[1..n -> AbortUpdates] : n \in 1..MaxUpdates}

WriteUpdateLists == UNION {[1..n -> WriteUpdates] : n \in 1..MaxUpdates}

\* The orders in which Go may range over the map updateGraph.
GraphOrders == {<<"x", "y">>, <<"y", "x">>}

\* TxnId.Compare, on the numbers that stand for txn ids.
CompareTxnIds(a, b) == IF a < b THEN "LT" ELSE IF a = b THEN "EQ" ELSE "GT"

NoOverlay == [v \in VCVarIds |-> Nil]

\* The entry a var has when it enters the cache by a write not yet reached.
writtenCached(txnId, action) ==
  [txnId |-> [txn |-> txnId], clockElem |-> AbortClockElem(txnId), caps |-> Nil,
   value |-> action.value, references |-> action.references]

\* A write taken whatever the cache holds of the var.
abortActionAlways(w, txnId, action) ==
  LET vUUId == action.varId
      c == w.cache[vUUId]
  IN IF action.which = "write"
     THEN IF c # Nil
          THEN [w EXCEPT !.cache[vUUId].txnId = [txn |-> txnId],
                         !.cache[vUUId].clockElem = AbortClockElem(txnId),
                         !.cache[vUUId].value = action.value,
                         !.cache[vUUId].references = action.references,
                         !.graph[vUUId] =
                            [txnId |-> txnId, stored |-> TRUE, cached |-> Nil]]
          ELSE [w EXCEPT !.graph[vUUId] =
                            [txnId |-> txnId, stored |-> FALSE,
                             cached |-> writtenCached(txnId, action)]]
     ELSE w

\* updateExisting's body for one action of the update of txnId.  w holds the
\* cache, the updateGraph and whether the code panicked.  The overlay of a
\* var of the cache points to the cached entry itself (cached is Nil here);
\* the overlay of a var not in the cache carries its own entry.
abortAction(w, txnId, action) ==
  LET vUUId == action.varId
      c == w.cache[vUUId]
      clockElem == AbortClockElem(txnId)
  IN IF action.which = "missing"
     THEN IF c # Nil
          THEN IF c.txnId # Nil
               THEN LET cmp == CompareTxnIds(c.txnId.txn, txnId)
                    IN IF cmp = "EQ" /\ clockElem # c.clockElem
                       THEN [w EXCEPT !.panicked = TRUE]
                       ELSE IF clockElem > c.clockElem
                                 \/ (clockElem = c.clockElem /\ cmp = "LT")
                            THEN [w EXCEPT !.cache[vUUId].txnId = Nil,
                                           !.cache[vUUId].clockElem = 0,
                                           !.cache[vUUId].value = Nil,
                                           !.cache[vUUId].references = <<>>,
                                           !.graph[vUUId] =
                                              [txnId |-> txnId, stored |-> TRUE,
                                               cached |-> Nil]]
                            ELSE w
               ELSE w
          ELSE w
     ELSE IF c # Nil
          THEN LET cmp == IF c.txnId = Nil THEN "none"
                          ELSE CompareTxnIds(c.txnId.txn, txnId)
                   updating == IF c.txnId = Nil THEN TRUE
                               ELSE clockElem > c.clockElem
                                      \/ (clockElem = c.clockElem /\ cmp = "LT")
               IN IF c.txnId # Nil /\ cmp = "EQ" /\ clockElem # c.clockElem
                  THEN [w EXCEPT !.panicked = TRUE]
                  ELSE IF updating
                       THEN [w EXCEPT !.cache[vUUId].txnId = [txn |-> txnId],
                                      !.cache[vUUId].clockElem = clockElem,
                                      !.cache[vUUId].value = action.value,
                                      !.cache[vUUId].references = action.references,
                                      !.graph[vUUId] =
                                         [txnId |-> txnId, stored |-> TRUE,
                                          cached |-> Nil]]
                       ELSE w
          ELSE [w EXCEPT !.graph[vUUId] =
                            [txnId |-> txnId, stored |-> FALSE,
                             cached |-> writtenCached(txnId, action)]]

\* updateExisting's inner loop over the actions of one update, from position
\* idy (counted from 1); a panic ends it.
RECURSIVE updateExistingActions(_, _, _)
updateExistingActions(w, update, idy) ==
  IF w.panicked \/ idy > Len(update.actions) THEN w
  ELSE updateExistingActions(abortAction(w, update.txnId, update.actions[idy]),
                             update, idy + 1)

\* versionCache.updateExisting: the loop over the updates from position idx
\* (counted from 1).
RECURSIVE updateExisting(_, _, _)
updateExisting(w, updatesCap, idx) ==
  IF w.panicked \/ idx > Len(updatesCap) THEN w
  ELSE updateExisting(updateExistingActions(w, updatesCap[idx], 1), updatesCap, idx + 1)

\* updateReachable's body for one reference; r holds the cache, the
\* updateGraph, reaches and the worklist.
reachReference(r, ref) ==
  LET vUUIdRef == ref.id
      caps == ref.caps
      overlay == r.graph[vUUIdRef]
      found == overlay # Nil
      created == ~found /\ r.cache[vUUIdRef] = Nil
      placed ==
        IF found
        THEN IF ~overlay.stored
             THEN [r EXCEPT !.graph[vUUIdRef].stored = TRUE,
                            !.graph[vUUIdRef].cached = Nil,
                            !.cache[vUUIdRef] = overlay.cached]
             ELSE r
        ELSE IF created
             THEN [r EXCEPT !.cache[vUUIdRef] =
                               [txnId |-> Nil, clockElem |-> 0, caps |-> caps,
                                value |-> Nil, references |-> <<>>]]
             ELSE r
      before == r.reaches[vUUIdRef]
      merge == mergeCaps(placed.cache[vUUIdRef].caps, caps, created)
      merged == [placed EXCEPT !.cache[vUUIdRef].caps = merge.caps]
      c == merged.cache[vUUIdRef]
      after == reachableReferences(c)
      grown == Len(after) > Len(before)
      queued == IF grown
                THEN [merged EXCEPT !.reaches[vUUIdRef] = after,
                                    !.worklist = Append(@, vUUIdRef)]
                ELSE merged
      ensureUpdate == merge.gainedRead \/ grown
  IN IF ensureUpdate /\ ~found /\ c.txnId # Nil
     THEN [queued EXCEPT !.graph[vUUIdRef] =
                            [txnId |-> c.txnId.txn, stored |-> TRUE, cached |-> Nil]]
     ELSE queued

\* updateReachable's loop over the references a var of the worklist reaches.
RECURSIVE reachReferences(_, _)
reachReferences(r, refs) ==
  IF Len(refs) = 0 THEN r
  ELSE reachReferences(reachReference(r, Head(refs)), Tail(refs))

\* updateReachable's loop over the worklist.
RECURSIVE reachWorklist(_)
reachWorklist(r) ==
  IF Len(r.worklist) = 0 THEN r
  ELSE LET vUUId == Head(r.worklist)
       IN reachWorklist(reachReferences([r EXCEPT !.worklist = Tail(@)],
                                        r.reaches[vUUId]))

\* Whether the overlay of a var is stored, and the entry it points to.
overlayStored(w, v) == IF w.graph[v] = Nil THEN FALSE ELSE w.graph[v].stored

\* versionCache.updateReachable: order is the order in which the range over
\* updateGraph comes upon the vars.
updateReachable(w, order) ==
  LET starts == SelectSeq(order, LAMBDA v : overlayStored(w, v))
      done == reachWorklist(
                [cache |-> w.cache, graph |-> w.graph,
                 reaches |-> [v \in VCVarIds |->
                                IF overlayStored(w, v)
                                THEN reachableReferences(w.cache[v]) ELSE <<>>],
                 worklist |-> starts])
  IN [w EXCEPT !.cache = done.cache, !.graph = done.graph]

\* versionCache.UpdateFromAbort: the cache after the call, and in written the
\* valid updates it returns, each the txn and the var of a stored overlay.
UpdateFromAbort(c, updatesCap, order) ==
  LET existing == updateExisting([cache |-> c.cache, graph |-> NoOverlay,
                                  panicked |-> FALSE], updatesCap, 1)
      reached == updateReachable(existing, order)
  IN IF existing.panicked THEN [c EXCEPT !.cache = existing.cache, !.panicked = TRUE]
     ELSE [c EXCEPT !.cache = reached.cache,
                    !.written = {[txnId |-> reached.graph[v].txnId, varUUId |-> v] :
                                   v \in {u \in VCVarIds : overlayStored(reached, u)}}]

\* ---- actions ---------------------------------------------------------------

\* The outcome of a txn the client submitted is an abort that carries updates.
VCUpdateFromAbort(updatesCap, order) ==
  /\ ~vc.panicked
  /\ vc' = UpdateFromAbort(VCHandling(vc), updatesCap, order)
  /\ UNCHANGED <<acc, proposed, accs, vr, cm, pm, tt, conn, cr, bbe, ts, qt, vm, sm, dm, ptc, va>>

VCAbortNext ==
  \E updatesCap \in UpdateLists, order \in GraphOrders :
    VCUpdateFromAbort(updatesCap, order)

\* mergeCaps applied to the capability the cache holds of x; ensured records
\* the two capabilities merged and the value returned.
VCMergeCaps(b) ==
  /\ vc.cache["x"] # Nil
  /\ LET a == vc.cache["x"].caps
         merge == mergeCaps(a, b, FALSE)
     IN vc' = [VCHandling(vc) EXCEPT
                 !.cache["x"].caps = merge.caps,
                 !.ensured = [a |-> a, b |-> b, gainedRead |-> merge.gainedRead]]
  /\ UNCHANGED <<acc, proposed, accs, vr, cm, pm, tt, conn, cr, bbe, ts, qt, vm, sm, dm, ptc, va>>

MergeCapsNext == \E b \in VCCapabilities : VCMergeCaps(b)
\* The txns the model runs: an ordinary txn on which both voters vote commit,
\* and a retry txn whose second voter reports a bad read.  No abort has been
\* proposed yet.
TxnScenarios ==
  { [v1 |-> [i \in Instances |-> "Commit"],
     abort |-> [i \in Instances |-> FALSE], retry |-> FALSE],
    [v1 |-> [i \in Instances |-> IF i = 1 THEN "Commit" ELSE "BadRead"],
     abort |-> [i \in Instances |-> FALSE], retry |-> TRUE] }

AcceptorInit(participants) ==
  /\ acc = [a \in Acceptors |-> NewAcceptor(a)]
  /\ proposed \in TxnScenarios
  /\ accs = participants
  /\ vr = NewVarManager
  /\ va = [id \in VLVarIds |-> NewVLState]
  /\ ptc = NewTCState
  /\ dm = NewDispatch(BootCount)
  /\ sm = NewSubscriptionManager
  /\ vm = NewVMState(Nil)
  /\ qt = NewQuiet(Nil)
  /\ ts = NewTopologySubscribers
  /\ bbe = NewBinaryBackoffEngine(SubmissionMinSubmitDelay, SubmissionMaxSubmitDelay)
  /\ vc = NewVersionCache([v \in VCVarIds |-> Nil])
  /\ cr = NewConnectionRun
  /\ conn = NewConnection
  /\ tt = NewTopologyTransmogrifier
  /\ cm = NewConnectionManager
  /\ pm = NewProposerManager

AcceptorNext ==
  \/ \E a \in Acceptors : AStart(a)
  \/ \E i \in Instances : ProposeAbort(i)
  \/ \E a \in Acceptors, i \in Instances : ABallotAccepted(a, i)
  \/ \E a \in Acceptors, rm \in RMs : ATxnLocallyComplete(a, rm)
  \/ \E a \in Acceptors : ATxnSubmissionComplete(a)
  \/ \E a \in Acceptors, removed \in SUBSET RemovableRMs : ATopologyChanged(a, removed)
  \/ \E a \in Acceptors : AKVExecute(a)
  \/ \E a \in Acceptors : AExeRun(a)
  \/ \E a \in Acceptors : ACMProcess(a)
  \/ \E a \in Acceptors, rm \in ConnRMs : AConnectionLost(a, rm)
  \/ \E a \in Acceptors, rm \in ConnRMs : AConnectionEstablished(a, rm)

vars == <<acc, proposed, accs, vr, cm, pm, tt, conn, cr, vc, bbe, ts, qt, vm, sm, dm, ptc, va>>

SpecAcceptor == AcceptorInit({1}) /\ [][AcceptorNext]_vars

\* The records of the txn a node can find in its KV store when it starts:
\* an outcome the accepted ballots determine, with the sendToAll written
\* with it.
RestoredRecords(retry) ==
  {d \in [which : {"Commit", "Rerun", "Resubmit"}, sendToAll : BOOLEAN,
          instances : [Instances -> {"None", "Commit", "BadRead", "Deadlock"}]] :
     /\ d.which = DetermineWhich(d.instances, retry)
     /\ d.which = "Commit" => d.sendToAll}

\* The acceptor of node 1 is made for a txn it receives, or restored from
\* the record on disk; the ballots on record have been proposed.
AcceptorLifeInit ==
  /\ accs = {1}
  /\ \/ /\ acc = [a \in Acceptors |-> NewAcceptor(a)]
        /\ proposed \in TxnScenarios
     \/ \E p \in TxnScenarios : \E d \in RestoredRecords(p.retry) :
          /\ \A i \in Instances : d.instances[i] \in {"None", p.v1[i], "Deadlock"}
          /\ acc = [a \in Acceptors |->
                      IF a = 1 THEN AcceptorFromData(a, d) ELSE NewAcceptor(a)]
          /\ proposed = [p EXCEPT !.abort = [i \in Instances |->
                                               d.instances[i] = "Deadlock"]]
  /\ vr = NewVarManager
  /\ va = [id \in VLVarIds |-> NewVLState]
  /\ ptc = NewTCState
  /\ dm = NewDispatch(BootCount)
  /\ sm = NewSubscriptionManager
  /\ vm = NewVMState(Nil)
  /\ qt = NewQuiet(Nil)
  /\ ts = NewTopologySubscribers
  /\ cm = NewConnectionManager
  /\ pm = NewProposerManager
  /\ tt = NewTopologyTransmogrifier
  /\ conn = NewConnection
  /\ cr = NewConnectionRun
  /\ vc = NewVersionCache([v \in VCVarIds |-> Nil])
  /\ bbe = NewBinaryBackoffEngine(SubmissionMinSubmitDelay, SubmissionMaxSubmitDelay)

\* An acceptor from its creation, or its restoration, to its end.
SpecAcceptorLife == AcceptorLifeInit /\ [][AcceptorNext]_vars

\* The acceptor of node 2, whose connection to the txn's submitter (node 1)
\* comes and goes while ballots arrive and outcomes are written.
TxnSenderNext ==
  \/ \E a \in Acceptors : AStart(a)
  \/ \E i \in Instances : ProposeAbort(i)
  \/ \E a \in Acceptors, i \in Instances : ABallotAccepted(a, i)
  \/ \E a \in Acceptors : AKVExecute(a)
  \/ \E a \in Acceptors : AExeRun(a)
  \/ \E a \in Acceptors : ACMProcess(a)
  \/ \E a \in Acceptors : AConnectionLost(a, TxnSubmitter)
  \/ \E a \in Acceptors : AConnectionEstablished(a, TxnSubmitter)

SpecTxnSender == AcceptorInit({2}) /\ [][TxnSenderNext]_vars

\* Two acceptors of the txn receiving ballots and persisting outcomes.
AgreementNext ==
  \/ \E a \in Acceptors : AStart(a)
  \/ \E i \in Instances : ProposeAbort(i)
  \/ \E a \in Acceptors, i \in Instances : ABallotAccepted(a, i)
  \/ \E a \in Acceptors : AKVExecute(a)
  \/ \E a \in Acceptors : AExeRun(a)

SpecAgreement == AcceptorInit({1, 2}) /\ [][AgreementNext]_vars

\* The components a specification leaves alone stay as constructed.
AcceptorsIdle ==
  /\ acc = [a \in Acceptors |-> NewAcceptor(a)]
  /\ proposed = CHOOSE p \in TxnScenarios : ~p.retry
  /\ accs = {}

VarInit ==
  /\ AcceptorsIdle
  /\ vr = NewVarManager
  /\ va = [id \in VLVarIds |-> NewVLState]
  /\ ptc = NewTCState
  /\ dm = NewDispatch(BootCount)
  /\ sm = NewSubscriptionManager
  /\ vm = NewVMState(Nil)
  /\ qt = NewQuiet(Nil)
  /\ ts = NewTopologySubscribers
  /\ bbe = NewBinaryBackoffEngine(SubmissionMinSubmitDelay, SubmissionMaxSubmitDelay)
  /\ vc = NewVersionCache([v \in VCVarIds |-> Nil])
  /\ cr = NewConnectionRun
  /\ conn = NewConnection
  /\ tt = NewTopologyTransmogrifier
  /\ cm = NewConnectionManager
  /\ pm = NewProposerManager

\* The var write protocol on its own.
SpecVar == VarInit /\ [][VarNext]_vars

CMInit ==
  /\ AcceptorsIdle
  /\ vr = NewVarManager
  /\ va = [id \in VLVarIds |-> NewVLState]
  /\ ptc = NewTCState
  /\ dm = NewDispatch(BootCount)
  /\ sm = NewSubscriptionManager
  /\ vm = NewVMState(Nil)
  /\ qt = NewQuiet(Nil)
  /\ ts = NewTopologySubscribers
  /\ bbe = NewBinaryBackoffEngine(SubmissionMinSubmitDelay, SubmissionMaxSubmitDelay)
  /\ vc = NewVersionCache([v \in VCVarIds |-> Nil])
  /\ cr = NewConnectionRun
  /\ conn = NewConnection
  /\ tt = NewTopologyTransmogrifier
  /\ cm = NewConnectionManager
  /\ pm = NewProposerManager

\* The connection manager's registry of server connections.
SpecCM == CMInit /\ [][CMNext]_vars

\* The connection manager's gating of clients.
SpecCMGate == CMInit /\ [][CMGateNext]_vars

PMInit ==
  /\ AcceptorsIdle
  /\ vr = NewVarManager
  /\ va = [id \in VLVarIds |-> NewVLState]
  /\ ptc = NewTCState
  /\ dm = NewDispatch(BootCount)
  /\ sm = NewSubscriptionManager
  /\ vm = NewVMState(Nil)
  /\ qt = NewQuiet(Nil)
  /\ ts = NewTopologySubscribers
  /\ bbe = NewBinaryBackoffEngine(SubmissionMinSubmitDelay, SubmissionMaxSubmitDelay)
  /\ vc = NewVersionCache([v \in VCVarIds |-> Nil])
  /\ cr = NewConnectionRun
  /\ conn = NewConnection
  /\ tt = NewTopologyTransmogrifier
  /\ cm = NewConnectionManager
  /\ \E shapes \in [PMTxnIds -> PMTxnShapes] :
       pm = [NewProposerManager EXCEPT !.txns = [t \in PMTxnIds |-> PMTxn(t, shapes[t])]]

\* The proposer manager's admission of txns.
SpecPM == PMInit /\ [][PMNext]_vars


TTInit ==
  /\ AcceptorsIdle
  /\ vr = NewVarManager
  /\ va = [id \in VLVarIds |-> NewVLState]
  /\ ptc = NewTCState
  /\ dm = NewDispatch(BootCount)
  /\ sm = NewSubscriptionManager
  /\ vm = NewVMState(Nil)
  /\ qt = NewQuiet(Nil)
  /\ ts = NewTopologySubscribers
  /\ bbe = NewBinaryBackoffEngine(SubmissionMinSubmitDelay, SubmissionMaxSubmitDelay)
  /\ vc = NewVersionCache([v \in VCVarIds |-> Nil])
  /\ cr = NewConnectionRun
  /\ conn = NewConnection
  /\ cm = NewConnectionManager
  /\ pm = NewProposerManager
  /\ tt = NewTopologyTransmogrifier

\* The topology transmogrifier receiving topologies and targets.
SpecTT == TTInit /\ [][TTNext]_vars

ConnInit ==
  /\ AcceptorsIdle
  /\ vr = NewVarManager
  /\ va = [id \in VLVarIds |-> NewVLState]
  /\ ptc = NewTCState
  /\ dm = NewDispatch(BootCount)
  /\ sm = NewSubscriptionManager
  /\ vm = NewVMState(Nil)
  /\ qt = NewQuiet(Nil)
  /\ ts = NewTopologySubscribers
  /\ bbe = NewBinaryBackoffEngine(SubmissionMinSubmitDelay, SubmissionMaxSubmitDelay)
  /\ vc = NewVersionCache([v \in VCVarIds |-> Nil])
  /\ cr = NewConnectionRun
  /\ cm = NewConnectionManager
  /\ pm = NewProposerManager
  /\ tt = NewTopologyTransmogrifier
  /\ \E connectionNumber \in {0, 1}, topology \in ConnTopologies :
       conn = NewConnectionOf(connectionNumber, topology)

\* A connection from construction to shutdown.
SpecConn == ConnInit /\ [][ConnNext]_vars

\* A connection that may be shut down at any moment, and whose delay timer
\* fires: time.AfterFunc enqueues the timer's message and the actor handles
\* every message in its mailbox.
SpecConnLife == ConnInit /\ [][ConnLifeNext]_vars /\ WF_vars(ConnDelayExec)

CRInit ==
  /\ AcceptorsIdle
  /\ vr = NewVarManager
  /\ va = [id \in VLVarIds |-> NewVLState]
  /\ ptc = NewTCState
  /\ dm = NewDispatch(BootCount)
  /\ sm = NewSubscriptionManager
  /\ vm = NewVMState(Nil)
  /\ qt = NewQuiet(Nil)
  /\ ts = NewTopologySubscribers
  /\ bbe = NewBinaryBackoffEngine(SubmissionMinSubmitDelay, SubmissionMaxSubmitDelay)
  /\ vc = NewVersionCache([v \in VCVarIds |-> Nil])
  /\ cm = NewConnectionManager
  /\ pm = NewProposerManager
  /\ tt = NewTopologyTransmogrifier
  /\ conn = NewConnection
  /\ \E remoteHost \in {"", "peer"} : cr = NewConnectionRunOf(remoteHost)

\* A running connection, its beater and its reader.
SpecCR == CRInit /\ [][CRNext]_vars

\* The roots a client is given: var x with some capability, or no root.
VCRoots ==
  {[v \in VCVarIds |-> IF v = "x" THEN caps ELSE Nil] : caps \in VCCapabilities \cup {Nil}}

VCInit ==
  /\ AcceptorsIdle
  /\ vr = NewVarManager
  /\ va = [id \in VLVarIds |-> NewVLState]
  /\ ptc = NewTCState
  /\ dm = NewDispatch(BootCount)
  /\ sm = NewSubscriptionManager
  /\ vm = NewVMState(Nil)
  /\ qt = NewQuiet(Nil)
  /\ ts = NewTopologySubscribers
  /\ bbe = NewBinaryBackoffEngine(SubmissionMinSubmitDelay, SubmissionMaxSubmitDelay)
  /\ cm = NewConnectionManager
  /\ pm = NewProposerManager
  /\ tt = NewTopologyTransmogrifier
  /\ conn = NewConnection
  /\ cr = NewConnectionRun
  /\ \E roots \in VCRoots : vc = NewVersionCache(roots)

\* A client's version cache and the calls made on it.
SpecVC == VCInit /\ [][VCNext]_vars

\* The roots of the runs of aborts: x, with one of three capabilities.
AbortRoots ==
  {[v \in VCVarIds |-> IF v = "x" THEN caps ELSE Nil] :
     caps \in {maxCapsCap,
               [value |-> "none", refsRead |-> [which |-> "only", only |-> <<>>],
                refsWrite |-> [which |-> "only", only |-> <<>>]]} \cup AbortRefCaps}

VCAbortInit ==
  /\ AcceptorsIdle
  /\ vr = NewVarManager
  /\ va = [id \in VLVarIds |-> NewVLState]
  /\ ptc = NewTCState
  /\ dm = NewDispatch(BootCount)
  /\ sm = NewSubscriptionManager
  /\ vm = NewVMState(Nil)
  /\ qt = NewQuiet(Nil)
  /\ ts = NewTopologySubscribers
  /\ bbe = NewBinaryBackoffEngine(SubmissionMinSubmitDelay, SubmissionMaxSubmitDelay)
  /\ cm = NewConnectionManager
  /\ pm = NewProposerManager
  /\ tt = NewTopologyTransmogrifier
  /\ conn = NewConnection
  /\ cr = NewConnectionRun
  /\ \E roots \in AbortRoots : vc = NewVersionCache(roots)

\* A client's version cache and the aborts that update it.
SpecVCAbort == VCAbortInit /\ [][VCAbortNext]_vars

MergeCapsInit ==
  /\ AcceptorsIdle
  /\ vr = NewVarManager
  /\ va = [id \in VLVarIds |-> NewVLState]
  /\ ptc = NewTCState
  /\ dm = NewDispatch(BootCount)
  /\ sm = NewSubscriptionManager
  /\ vm = NewVMState(Nil)
  /\ qt = NewQuiet(Nil)
  /\ ts = NewTopologySubscribers
  /\ bbe = NewBinaryBackoffEngine(SubmissionMinSubmitDelay, SubmissionMaxSubmitDelay)
  /\ cm = NewConnectionManager
  /\ pm = NewProposerManager
  /\ tt = NewTopologyTransmogrifier
  /\ conn = NewConnection
  /\ cr = NewConnectionRun
  /\ \E roots \in VCRoots : roots["x"] # Nil /\ vc = NewVersionCache(roots)

\* mergeCaps on every pair of capabilities.
SpecMergeCaps == MergeCapsInit /\ [][MergeCapsNext]_vars

BBEInit ==
  /\ AcceptorsIdle
  /\ vr = NewVarManager
  /\ va = [id \in VLVarIds |-> NewVLState]
  /\ ptc = NewTCState
  /\ dm = NewDispatch(BootCount)
  /\ sm = NewSubscriptionManager
  /\ vm = NewVMState(Nil)
  /\ qt = NewQuiet(Nil)
  /\ ts = NewTopologySubscribers
  /\ cm = NewConnectionManager
  /\ pm = NewProposerManager
  /\ tt = NewTopologyTransmogrifier
  /\ conn = NewConnection
  /\ cr = NewConnectionRun
  /\ vc = NewVersionCache([v \in VCVarIds |-> Nil])
  /\ bbe = NewBinaryBackoffEngine(SubmissionMinSubmitDelay, SubmissionMaxSubmitDelay)

\* A submitter's backoff over its retries.
SpecBBE == BBEInit /\ [][BBENext]_vars

TSInit ==
  /\ AcceptorsIdle
  /\ vr = NewVarManager
  /\ va = [id \in VLVarIds |-> NewVLState]
  /\ ptc = NewTCState
  /\ dm = NewDispatch(BootCount)
  /\ sm = NewSubscriptionManager
  /\ vm = NewVMState(Nil)
  /\ qt = NewQuiet(Nil)
  /\ ts = NewTopologySubscribers
  /\ cm = NewConnectionManager
  /\ pm = NewProposerManager
  /\ tt = NewTopologyTransmogrifier
  /\ conn = NewConnection
  /\ cr = NewConnectionRun
  /\ vc = NewVersionCache([v \in VCVarIds |-> Nil])
  /\ bbe = NewBinaryBackoffEngine(SubmissionMinSubmitDelay, SubmissionMaxSubmitDelay)

\* Topologies set while subscribers come, go and answer.
SpecTS == TSInit /\ [][TSNext]_vars

QuietInit ==
  /\ AcceptorsIdle
  /\ vr = NewVarManager
  /\ va = [id \in VLVarIds |-> NewVLState]
  /\ ptc = NewTCState
  /\ dm = NewDispatch(BootCount)
  /\ sm = NewSubscriptionManager
  /\ vm = NewVMState(Nil)
  /\ qt \in {NewQuiet(topology) : topology \in QuietTopologies(1) \ {Nil}}
  /\ ts = NewTopologySubscribers
  /\ cm = NewConnectionManager
  /\ pm = NewProposerManager
  /\ tt = NewTopologyTransmogrifier
  /\ conn = NewConnection
  /\ cr = NewConnectionRun
  /\ vc = NewVersionCache([v \in VCVarIds |-> Nil])
  /\ bbe = NewBinaryBackoffEngine(SubmissionMinSubmitDelay, SubmissionMaxSubmitDelay)

\* A quiet task ticked while its installations are answered and the active
\* topology changes.
SpecQuiet == QuietInit /\ [][QuietNext]_vars

VMInit ==
  /\ AcceptorsIdle
  /\ vr = NewVarManager
  /\ va = [id \in VLVarIds |-> NewVLState]
  /\ ptc = NewTCState
  /\ dm = NewDispatch(BootCount)
  /\ sm = NewSubscriptionManager
  /\ vm \in {NewVMState(topology) : topology \in VMTopologies}
  /\ qt = NewQuiet(Nil)
  /\ ts = NewTopologySubscribers
  /\ cm = NewConnectionManager
  /\ pm = NewProposerManager
  /\ tt = NewTopologyTransmogrifier
  /\ conn = NewConnection
  /\ cr = NewConnectionRun
  /\ vc = NewVersionCache([v \in VCVarIds |-> Nil])
  /\ bbe = NewBinaryBackoffEngine(SubmissionMinSubmitDelay, SubmissionMaxSubmitDelay)

\* Topologies given to the var manager while its vars are written and its
\* executor runs or stops.
SpecVM == VMInit /\ [][VMNext]_vars

SMInit ==
  /\ AcceptorsIdle
  /\ vr = NewVarManager
  /\ va = [id \in VLVarIds |-> NewVLState]
  /\ ptc = NewTCState
  /\ dm = NewDispatch(BootCount)
  /\ sm = NewSubscriptionManager
  /\ vm = NewVMState(Nil)
  /\ qt = NewQuiet(Nil)
  /\ ts = NewTopologySubscribers
  /\ cm = NewConnectionManager
  /\ pm = NewProposerManager
  /\ tt = NewTopologyTransmogrifier
  /\ conn = NewConnection
  /\ cr = NewConnectionRun
  /\ vc = NewVersionCache([v \in VCVarIds |-> Nil])
  /\ bbe = NewBinaryBackoffEngine(SubmissionMinSubmitDelay, SubmissionMaxSubmitDelay)

\* Acceptors send, and send again, the outcomes of the txns that touch a
\* subscribed var.
SpecSM == SMInit /\ [][SMNext]_vars

\* The acceptor of node 2 while topologies remove RMs: the submitter, a
\* voter, a learner, this node itself.
RemovalNext ==
  \/ \E a \in Acceptors : AStart(a)
  \/ \E i \in Instances : ProposeAbort(i)
  \/ \E a \in Acceptors, i \in Instances : ABallotAccepted(a, i)
  \/ \E a \in Acceptors, rm \in RMs : ATxnLocallyComplete(a, rm)
  \/ \E a \in Acceptors : ATxnSubmissionComplete(a)
  \/ \E a \in Acceptors, removed \in SUBSET RMs : ATopologyChanged(a, removed)
  \/ \E a \in Acceptors : AKVExecute(a)
  \/ \E a \in Acceptors : AExeRun(a)
  \/ \E a \in Acceptors : ACMProcess(a)

SpecRemoval == AcceptorInit({2}) /\ [][RemovalNext]_vars

\* Acceptor 2 of the txn decides and sends its outcome to the submitter,
\* whose connection manager dispatches it while clients come and go.  The
\* network delivers what is sent and the connection manager's go-routines run.
DispatchInit ==
  /\ acc = [a \in Acceptors |-> NewAcceptor(a)]
  /\ proposed \in TxnScenarios
  /\ accs = {2}
  /\ vr = NewVarManager
  /\ va = [id \in VLVarIds |-> NewVLState]
  /\ ptc = NewTCState
  /\ dm \in {NewDispatch(bootCount) : bootCount \in {TxnSubmitterBootCount, BootCount}}
  /\ sm = NewSubscriptionManager
  /\ vm = NewVMState(Nil)
  /\ qt = NewQuiet(Nil)
  /\ ts = NewTopologySubscribers
  /\ bbe = NewBinaryBackoffEngine(SubmissionMinSubmitDelay, SubmissionMaxSubmitDelay)
  /\ vc = NewVersionCache([v \in VCVarIds |-> Nil])
  /\ cr = NewConnectionRun
  /\ conn = NewConnection
  /\ tt = NewTopologyTransmogrifier
  /\ pm = NewProposerManager
  /\ cm = NewConnectionManager

DispatchNext ==
  \/ \E a \in Acceptors : AStart(a)
  \/ \E a \in Acceptors, i \in Instances : ABallotAccepted(a, i)
  \/ \E a \in Acceptors, rm \in RMs : ATxnLocallyComplete(a, rm)
  \/ \E a \in Acceptors : AKVExecute(a)
  \/ \E a \in Acceptors : AExeRun(a)
  \/ \E a \in Acceptors : ACMProcess(a)
  \/ DispatchEnvNext

SpecDispatch ==
  DispatchInit /\ [][DispatchNext]_vars /\ WF_vars(DDispatchMessage) /\ WF_vars(DDeliverTSC)

DoneInit ==
  /\ AcceptorsIdle
  /\ vr = NewVarManager
  /\ va = [id \in VLVarIds |-> NewVLState]
  /\ ptc = NewTCState
  /\ dm = NewDispatch(BootCount)
  /\ sm = NewSubscriptionManager
  /\ vm = NewVMState(Nil)
  /\ qt = NewQuiet(Nil)
  /\ ts = NewTopologySubscribers
  /\ cm = NewConnectionManager
  /\ pm = NewProposerManager
  /\ tt = NewTopologyTransmogrifier
  /\ conn = NewConnection
  /\ cr = NewConnectionRun
  /\ vc = NewVersionCache([v \in VCVarIds |-> Nil])
  /\ bbe = NewBinaryBackoffEngine(SubmissionMinSubmitDelay, SubmissionMaxSubmitDelay)

\* Topologies given to the var manager and to the proposer manager while
\* vars are written, proposers complete and the executors run or stop.  An
\* executor that runs handles the next message in its queue, and a
\* go-routine that can go on does.
SpecDone ==
  /\ DoneInit /\ [][DoneNext]_vars
  /\ WF_vars(VMTopologyChangedExec) /\ WF_vars(VMWait)
  /\ WF_vars(TCExec) /\ WF_vars(TCWait)

VarLifeInit ==
  /\ AcceptorsIdle
  /\ vr = NewVarManager
  /\ va = [id \in VLVarIds |-> NewVLState]
  /\ ptc = NewTCState
  /\ dm = NewDispatch(BootCount)
  /\ sm = NewSubscriptionManager
  /\ vm = NewVMState(Nil)
  /\ qt = NewQuiet(Nil)
  /\ ts = NewTopologySubscribers
  /\ cm = NewConnectionManager
  /\ pm = NewProposerManager
  /\ tt = NewTopologyTransmogrifier
  /\ conn = NewConnection
  /\ cr = NewConnectionRun
  /\ vc = NewVersionCache([v \in VCVarIds |-> Nil])
  /\ bbe = NewBinaryBackoffEngine(SubmissionMinSubmitDelay, SubmissionMaxSubmitDelay)

\* Txns, outcomes and writes reach two vars, which become inactive and are
\* restored or made again.
SpecVarLife == VarLifeInit /\ [][VarLifeNext]_vars
(***************************************************************************)
(* Properties of the acceptor                                              *)
(***************************************************************************)

C3_DeleteOnlyWhenComplete ==
  \A a \in accs :
    (acc[a].currentState = "DeleteFromDisk" \/ acc[a].finished)
    => (acc[a].pendingTLC = {} /\ acc[a].tscReceived)

\* The acceptor has moved to DeleteFromDisk after receiving the TLCs of all
\* its recipients and the TSC.
C3_Witness ==
  \E a \in accs :
    /\ acc[a].currentState = "DeleteFromDisk"
    /\ acc[a].tgcRecipients # <<>>
    /\ SeqToSet(acc[a].tgcRecipients) \subseteq acc[a].tlcsReceived
    /\ acc[a].tscReceived

\* C4: a step that accepts a ballot while the acceptor is in
\* AwaitLocallyComplete records the ballot, whatever TLCs have been received;
\* if the accumulator's outcome is not Equal to the current one the acceptor
\* adopts it, is in WriteToDisk and has queued its KV write; and whenever the
\* acceptor is in AwaitLocallyComplete its 2B sender is for the outcome on
\* disk, which is the outcome of the ballots it holds.
C4_Step(a, i, vote) ==
  LET r == acc[a]
      which == DetermineWhich(BallotReceived(r.accepted, i, vote), proposed.retry)
  IN (/\ Live(a) /\ r.currentState = "AwaitLocallyComplete"
      /\ r.nextId <= MaxOutcomes
      /\ vote \in Deliverable(a, i)
      /\ acc' = [acc EXCEPT ![a] = Quiet(BallotAccepted(@, i, vote, proposed.retry))]
      /\ UNCHANGED <<proposed, accs, vr, cm, pm, tt, conn, cr, vc, bbe, ts, qt, vm, sm, dm, ptc, va>>)
     => /\ acc'[a].accepted[i] = vote
        /\ (which # NoWhich /\ ~Equal(Outcome(r.nextId, which), r.outcome))
           => /\ acc'[a].currentState = "WriteToDisk"
              /\ acc'[a].outcome.which = which
              /\ acc'[a].kv # <<>>
              /\ Last(acc'[a].kv).op = "Put"
              /\ Last(acc'[a].kv).data.which = which

C4_InAwaitLocallyComplete(r) ==
  (r.currentState = "AwaitLocallyComplete" /\ r.twoBSender # Nil)
  => /\ r.disk # Nil
     /\ r.twoBSender.submitterMsg = r.disk.which
     /\ r.twoBSender.msg = TwoBWhich(DetermineWhich(r.accepted, proposed.retry))

C6_WriteStep ==
  (vr.kv # <<>> /\ vr' = writeFrameTxn([vr EXCEPT !.kv = Tail(@)], Head(vr.kv)))
  => LET t == Head(vr.kv)
     IN /\ vr'.Vars = [writeTxnId |-> t.f.frameTxnId]
        /\ t.f.frameTxnId \in vr'.Txns
        /\ vr.Vars # Nil => (/\ t.curFrameOnDisk # Nil
                             /\ t.curFrameOnDisk.frameTxnId = vr.Vars.writeTxnId
                             /\ vr.Vars.writeTxnId \notin vr'.Txns)

C6_OnDiskVarHasTxn ==
  [][/\ C6_WriteStep
     /\ (vr.Vars # Nil => vr.Vars.writeTxnId \in vr.Txns)']_vars

\* A coalesced write has reached the disk after an earlier one: the var
\* record names the latest frame's txn, an intermediate frame was never
\* written, and the var has been restored from disk at least once.
C6_Witness ==
  /\ vr.Vars # Nil
  /\ vr.lastTxn # Nil /\ vr.lastTxn.curFrameOnDisk # Nil
  /\ vr.lastTxn.f.frameTxnId.txn > vr.lastTxn.curFrameOnDisk.frameTxnId.txn + 1
  /\ vr.nextObj > 2


\* The var is handed back to the VarManager by maybeMakeInactive.
MadeInactive(frameIdle) ==
  vr.active # Nil /\ maybeMakeInactive(vr, frameIdle).active = Nil

\* C18: a var is handed back to the VarManager by maybeMakeInactive and
\* removed from the active table only when writeInProgress is empty, its
\* current frame is idle, and no subscriber is attached to it.
C18_InactiveOnlyWhenIdleAndUnsubscribed ==
  \A frameIdle \in BOOLEAN :
    MadeInactive(frameIdle)
      => /\ vr.active.writeInProgress = Nil
         /\ frameIdle
         /\ vr.active.subscriptions = {}

\* The part of C18 that does not speak of subscribers.
C18_InactiveOnlyWhenIdle ==
  \A frameIdle \in BOOLEAN :
    MadeInactive(frameIdle) => vr.active.writeInProgress = Nil /\ frameIdle

\* A var with a subscriber and no write in progress: maybeMakeInactive hands
\* it back when its frame is idle.
C18_SubscribedVarMadeInactive ==
  /\ vr.active # Nil
  /\ vr.active.subscriptions # {}
  /\ vr.active.curFrameOnDisk = vr.active.curFrame
  /\ MadeInactive(TRUE)
(***************************************************************************)
(* Properties of the connection manager                                    *)
(***************************************************************************)

\* C7: when a connection is established for a remote rmId that rmToServer
\* already maps to a connection of the same host, rmToServer is unchanged,
\* the registered connection is not shut down and stays established, the
\* subscribers are told nothing, and the newcomer is recorded in
\* servers[host] without being shut down; and subscribers are told
\* ConnectionEstablished in a serverEstablished step only for the connection
\* that has just been registered for an rmId that had none.
C7_Step(c) ==
  LET rmId == ConnTable[c].rmId
      host == ConnTable[c].host
      cd == cm.rmToServer[rmId]
  IN CMServerEstablished(c)
     => /\ (rmId # RMId /\ cd # 0 /\ cdHost(cm, cd) = host)
           => /\ cm'.rmToServer = cm.rmToServer
              /\ cm'.conn[cd].shut = cm.conn[cd].shut
              /\ cm'.conn[cd].established = cm.conn[cd].established
              /\ cm'.notes = <<>>
              /\ \E idx \in 1..Len(cm'.servers[host]) : cm'.servers[host][idx] = c
              /\ cm'.conn[c].established
              /\ cm'.conn[c].shut = cm.conn[c].shut
        /\ cm'.notes # <<>>
           => /\ cd = 0
              /\ cm'.rmToServer[rmId] = c
              /\ cm'.notes = <<[type |-> "ConnectionEstablished", rmId |-> rmId, cd |-> c]>>

C7_ConnectionUniqueness == [][\A c \in Conns : C7_Step(c)]_vars

\* Two established connections of host h2 for rmId 2: the one registered in
\* rmToServer and a newcomer that is only a backup in servers[h2]; the
\* subscribers have just been told nothing.
C7_Witness ==
  /\ cm.rmToServer[2] = 2
  /\ cm.conn[2].established /\ cm.conn[3].established
  /\ ~cm.conn[2].shut /\ ~cm.conn[3].shut
  /\ cm.conn[3].phase = "up"
  /\ cm.servers["h2"] = <<2, 3>>
  /\ cm.notes = <<>>

\* Whether the RMs of topology that have acknowledged Flushed number at least
\* len(hosts) - F.
EnoughFlushed(topology, flushed) ==
  Cardinality({i \in 1..Len(topology.RMs) : topology.RMs[i] \in flushed})
    >= Len(topology.Hosts) - topology.F

\* C8, as stated: a non-local client is registered only if enough RMs of the
\* current topology have acknowledged Flushed.
C8_GatedOnCurrentTopology ==
  [][\A n \in ClientConnNumbers \ {0} :
       (CMClientEstablished(n) /\ n \in cm'.connCountToClient)
       => (cm.topology # Nil /\ EnoughFlushed(cm.topology, cm.flushed))]_vars

\* C8, amended: a client is registered and gets the server map exactly when
\* it is the local connection (connNumber 0) or flushedServers is nil;
\* flushedServers becomes nil only in a step that ends with enough RMs of the
\* topology then current having acknowledged Flushed, and it stays nil from
\* then on, whatever topology is installed later.
C8_GatedUntilFirstFlush ==
  [][/\ \A n \in ClientConnNumbers :
          CMClientEstablished(n)
          => /\ (n \in cm'.connCountToClient) <=> (n = 0 \/ cm.flushedNil)
             /\ (n \in cm'.connCountToClient)
                => cm'.client = [connNumber |-> n, servers |-> cm.rmToServer]
             /\ (n \notin cm'.connCountToClient) => cm'.client = Nil
     /\ (cm'.flushedNil /\ ~cm.flushedNil)
        => (cm'.topology # Nil /\ EnoughFlushed(cm'.topology, cm'.flushed))
     /\ cm.flushedNil => cm'.flushedNil]_vars

\* A non-local client has just been registered under the three-host
\* topology although only this node has acknowledged Flushed.
C8_Witness ==
  /\ cm.client # Nil /\ cm.client.connNumber = 1
  /\ 1 \in cm.connCountToClient
  /\ cm.topology # Nil /\ cm.topology.Version = 2
  /\ cm.flushed = {RMId}
  /\ ~EnoughFlushed(cm.topology, cm.flushed)


\* The dialers to host that run.
LiveDialersTo(host) == {c \in Conns : ConnTable[c].host = host /\ LiveDialer(cm, c)}

\* C17: at any time the connection manager has at most one live outbound
\* dialer connection per desired remote peer.
C17_OneLiveDialerPerDesiredPeer ==
  \A host \in cm.desired : Cardinality(LiveDialersTo(host)) <= 1

\* The part of C17 about where dialers are made: a SetTopology step starts a
\* dialer only for a desired host whose servers entry was missing or had an
\* empty slot 0, and puts it in slot 0.
C17_DialerOnlyIntoEmptySlot ==
  [][\A t \in 1..Len(Topologies) : \A c \in Conns :
       (CMSetTopology(t) /\ ~LiveDialer(cm, c) /\ LiveDialer(cm', c))
         => /\ ConnTable[c].host \in cm'.desired
            /\ NeedsDialer(cm, ConnTable[c].host)
            /\ cm'.servers[ConnTable[c].host][1] = c]_vars

\* Host h3 is desired again and has a second dialer while the established
\* dialer of its first stay is still up.
C17_TwoDialers ==
  /\ "h3" \in cm.desired
  /\ LiveDialer(cm, 5) /\ cm.conn[5].established
  /\ LiveDialer(cm, 6) /\ cm.servers["h3"][1] = 6
(***************************************************************************)
(* Properties of the proposer manager                                      *)
(***************************************************************************)

\* The three admission conditions of a txn sent by sender under a topology.
Admissible(topology, sender, txn) ==
  /\ topology.Version = txn.topologyVersion
  /\ (topology.NextConfiguration = Nil \/ txn.isTopology)
  /\ sender \notin topology.RMsRemoved

\* The ballots a rejection must propose for txn t: one AbortDeadlock ballot
\* with no clock for the var of each action index allocated to this node.
AbortBallotsFor(t) ==
  LET txn == pm.txns[t]
      indices == PMActionIndices[t]
  IN [idx \in 1..Len(indices) |->
        [VarUUId |-> txn.actions[indices[idx] + 1], Vote |-> "AbortDeadlock", Clock |-> Nil]]

\* After the step, txn t has been rejected: its proposer is an ActiveLearner
\* and a proposal of this node's own instance carries the abort ballots and
\* does not skip phase 1.
RejectedAfter(t) ==
  LET proposer == pm'.proposers[t]
      proposal == pm'.proposals[InstId(t, RMId)]
  IN /\ IF proposer = Nil THEN FALSE ELSE proposer.mode = "ActiveLearner"
     /\ IF proposal = Nil THEN FALSE
        ELSE /\ proposal.ballots = AbortBallotsFor(t)
             /\ proposal.instanceRMId = RMId
             /\ ~proposal.skipPhase1

\* C9: when the proposer manager holds a topology and has no proposer for
\* the txn, TxnReceived creates an ActiveVoter proposer only if the txn's
\* topology version equals the topology's, the topology has no next
\* configuration or the txn is a topology txn, and the sender is not in
\* RMsRemoved; if one of these fails the txn is rejected (an ActiveLearner
\* proposer with an abort proposal), and no step turns an existing proposer
\* into a voter.
C9_Step(t, sender) ==
  IF PMTxnReceived(t, sender)
  THEN IF pm.topology # Nil
       THEN IF pm.proposers[t] = Nil
            THEN /\ pm'.proposers[t] # Nil
                 /\ pm'.proposers[t].mode = "ActiveVoter"
                      => Admissible(pm.topology, sender, pm.txns[t])
                 /\ ~Admissible(pm.topology, sender, pm.txns[t]) => RejectedAfter(t)
            ELSE TRUE
       ELSE TRUE
  ELSE TRUE

C9_NoLateVoter(t) ==
  IF pm.proposers[t] # Nil
  THEN IF pm'.proposers[t] # Nil
       THEN pm'.proposers[t].mode = pm.proposers[t].mode
       ELSE TRUE
  ELSE TRUE

C9_Admission ==
  [][/\ \A t \in PMTxnIds, sender \in PMSenders : C9_Step(t, sender)
     /\ \A t \in PMTxnIds : C9_NoLateVoter(t)]_vars

\* Under the version 2 topology that removed RM 3, txn 1 (submitted under
\* version 2 for this incarnation) has a voter, and txn 2 (submitted under
\* version 1 for this incarnation) has been rejected.
C9_Witness ==
  /\ pm.topology = PMTopologies[3]
  /\ pm.txns[1].topologyVersion = 2
  /\ AllocForRMId(pm.txns[1], RMId).active = BootCount
  /\ pm.proposers[1] # Nil
  /\ pm.proposers[1].mode = "ActiveVoter"
  /\ pm.txns[2].topologyVersion = 1
  /\ AllocForRMId(pm.txns[2], RMId).active = BootCount
  /\ pm.proposers[2] # Nil
  /\ pm.proposers[2].mode = "ActiveLearner"
  /\ pm.proposals[InstId(2, RMId)] # Nil
  /\ pm.proposals[InstId(1, RMId)] = Nil

\* This node's allocation in txn t was made for another incarnation.
BootCountMismatch(t) ==
  LET alloc == AllocForRMId(pm.txns[t], RMId)
  IN IF alloc = Nil THEN FALSE ELSE alloc.active # BootCount

\* C10 as stated: whenever this node's allocation in a received txn is
\* present and its active field differs from BootCount, TxnReceived leaves
\* the txn rejected: one AbortDeadlock ballot with no clock per allocated
\* action index in a proposal of its own instance that does not skip
\* phase 1, and an ActiveLearner proposer.
C10_MismatchAlwaysRejected ==
  [][\A t \in PMTxnIds, sender \in PMSenders :
       (PMTxnReceived(t, sender) /\ BootCountMismatch(t)) => RejectedAfter(t)]_vars

\* C10 amended: the same, when the proposer manager holds a topology and has
\* neither a proposer for the txn nor a proposal for its own instance of it.
C10_Step(t, sender) ==
  IF PMTxnReceived(t, sender) /\ BootCountMismatch(t)
  THEN IF pm.topology # Nil
       THEN (pm.proposers[t] = Nil /\ pm.proposals[InstId(t, RMId)] = Nil)
              => RejectedAfter(t)
       ELSE TRUE
  ELSE TRUE

C10_MismatchRejected ==
  [][\A t \in PMTxnIds, sender \in PMSenders : C10_Step(t, sender)]_vars

\* Under the version 1 topology, txn 2, which passes the topology checks but
\* was allocated to the previous incarnation, has an ActiveLearner proposer
\* and a proposal with the two abort ballots of its two action indices.
C10_Witness ==
  /\ pm.topology = PMTopologies[1]
  /\ pm.txns[2].topologyVersion = 1
  /\ AllocForRMId(pm.txns[2], RMId).active = BootCount - 1
  /\ pm.proposers[2] # Nil
  /\ pm.proposers[2].mode = "ActiveLearner"
  /\ pm.proposals[InstId(2, RMId)] # Nil
  /\ Len(pm.proposals[InstId(2, RMId)].ballots) = 2
  /\ ~pm.proposals[InstId(2, RMId)].skipPhase1

(***************************************************************************)
(* PROPERTIES OF THE TOPOLOGY TRANSMOGRIFIER                               *)
(***************************************************************************)

\* A step that assigns activeTopology where there was one.
ActiveReplaced ==
  IF tt.activeTopology = Nil \/ tt'.activeTopology = Nil THEN FALSE
  ELSE tt'.activeTopology # tt.activeTopology

\* A step that gives the transmogrifier a task with another target than the
\* task it had.
TargetReplaced ==
  IF tt.currentTask = Nil \/ tt'.currentTask = Nil THEN FALSE
  ELSE TargetConfig(tt'.currentTask) # TargetConfig(tt.currentTask)

TargetsStrictlyIncrease ==
  TargetReplaced =>
    TargetConfig(tt'.currentTask).Version > TargetConfig(tt.currentTask).Version

\* C11 as stated: a topology that replaces activeTopology has a strictly
\* greater version than the one it replaces, and a target that replaces the
\* current task's target has a strictly greater version.
C11_StrictlyIncreasing ==
  [][/\ ActiveReplaced => tt'.activeTopology.Version > tt.activeTopology.Version
     /\ TargetsStrictlyIncrease]_vars

\* C11 (amended): a topology that replaces activeTopology never has a smaller
\* version than the one it replaces, and where the version is the same the
\* two differ in configuration; a target that replaces the current task's
\* target has a strictly greater version.
C11_NeverDecreasing ==
  [][/\ ActiveReplaced =>
          /\ tt'.activeTopology.Version >= tt.activeTopology.Version
          /\ ~ConfigurationEqual(tt.activeTopology, tt'.activeTopology)
     /\ TargetsStrictlyIncrease]_vars

\* The last call replaced activeTopology by a topology of version 1 or more,
\* while the current task targets a greater version.
C11_Witness ==
  /\ tt.replaced
  /\ tt.activeTopology # Nil
  /\ tt.activeTopology.Version >= 1
  /\ tt.currentTask # Nil
  /\ TargetConfig(tt.currentTask).Version > tt.activeTopology.Version

\* What setTarget compares a target with: the current task's target when a
\* task exists, the active topology otherwise.
Versus ==
  IF tt.currentTask # Nil THEN TargetConfig(tt.currentTask) ELSE tt.activeTopology

\* The rejections of C12, the target T against A.
ChangesClusterId(A, T) == T.ClusterId # A.ClusterId /\ A.ClusterId # ""

ConflictingClusterUUId(A, T) ==
  T.ClusterUUId # 0 /\ A.ClusterUUId # 0 /\ T.ClusterUUId # A.ClusterUUId

ChangesMaxRMCount(A, T) == T.MaxRMCount # A.MaxRMCount /\ A.Version > 0

Rejectable(A, T) ==
  \/ ChangesClusterId(A, T)
  \/ ConflictingClusterUUId(A, T)
  \/ ChangesMaxRMCount(A, T)
  \/ T.Version <= A.Version /\ ~EqualExternally(ConfigurationOf(T), ConfigurationOf(A))

\* The call that ends in after left the transmogrifier as it was: same
\* active topology, same task, no Abandon.
NothingMutated(after) ==
  /\ after.activeTopology = tt.activeTopology
  /\ after.currentTask = tt.currentTask
  /\ ~after.abandoned

\* The transmogrifier after the call setTarget(T) made now.
AfterSetTarget(T) ==
  setTarget([tt EXCEPT !.installed = Nil, !.replaced = FALSE], T)

C12_Step(T) ==
  LET A == Versus
      after == AfterSetTarget(T)
  IN IF A = Nil THEN TRUE
     ELSE IF Rejectable(A, T) THEN after.err # "nil" /\ NothingMutated(after)
     ELSE IF EqualExternally(ConfigurationOf(T), ConfigurationOf(A))
          THEN after.err = "nil" /\ NothingMutated(after)
     ELSE TRUE

\* C12: in every state the transmogrifier reaches, setTarget(T) returns an
\* error when T changes a non-empty ClusterId, conflicts with a non-zero
\* ClusterUUId, changes MaxRMCount after version 0 or has a version that is
\* not greater (its external content differing), and returns nil when T has
\* equal external content and none of the former applies; in each of these
\* cases the active topology and the current task stay as they were and the
\* task is not abandoned.
C12_RejectionMutatesNothing ==
  \A T \in TTNextConfigurations : C12_Step(T)

\* The last call returned an error about the version while a task exists,
\* and did not abandon it.
C12_Witness ==
  /\ tt.currentTask # Nil
  /\ tt.err \in {"VersionNotIncreased", "NewerVersionSeen"}
  /\ ~tt.abandoned

\* A topology that setActiveTopology does not discard as older than the
\* active one.
NotStale(topology) ==
  IF tt.activeTopology = Nil THEN TRUE
  ELSE topology.Version >= tt.activeTopology.Version

C13_Step(topology, hostFound, taskDone) ==
  LET after == setActiveTopology(tt, topology, hostFound, taskDone)
  IN /\ after.activeTopology = tt.activeTopology
     /\ after.activeTopology # topology
     /\ after.installed = Nil
     /\ after.currentTask = tt.currentTask
     /\ NotStale(topology) => after.err \in {"Removed", "ClusterIdChange"}

\* C13: in every state the transmogrifier reaches, setActiveTopology of a
\* topology whose RMsRemoved contains this RM leaves activeTopology and the
\* task as they were and hands nothing to the connection manager, and, the
\* topology not being older than the active one, returns a fatal error.
C13_RemovedNeverActive ==
  \A topology \in TTTopologies, hostFound \in BOOLEAN, taskDone \in BOOLEAN :
    tt.self \in topology.RMsRemoved => C13_Step(topology, hostFound, taskDone)

\* The last call was refused because this RM is removed, with a topology
\* active that stays active.
C13_Witness ==
  /\ tt.err = "Removed"
  /\ tt.activeTopology # Nil
  /\ tt.self \notin tt.activeTopology.RMsRemoved
  /\ tt.installed = Nil

(***************************************************************************)
(* PROPERTIES OF THE CONNECTION                                            *)
(***************************************************************************)

\* The three conditions of C14 on the hello of a server peer, against the
\* topology the handshake is made under.
SameCluster(hello) == hello.ClusterId = conn.topology.ClusterId

CompatibleClusterUUId(hello) ==
  \/ hello.ClusterUUId = conn.topology.ClusterUUId
  \/ hello.ClusterUUId = 0
  \/ conn.topology.ClusterUUId = 0

NotRemoved(hello) == hello.RmId \notin conn.topology.RMsRemoved

ServerPeerAdmissible(hello) ==
  SameCluster(hello) /\ CompatibleClusterUUId(hello) /\ NotRemoved(hello)

C14_Step(hello) ==
  LET done == finishHandshake(conn, hello)
      after == connectionHandshakeStart(conn, hello)
  IN /\ done.err = "nil" => ServerPeerAdmissible(hello)
     /\ after.currentState = "Run" => ServerPeerAdmissible(hello)
     /\ ~ServerPeerAdmissible(hello) =>
          /\ done.err # "nil"
          /\ after.err # "nil"
          /\ after.currentState # "Run"
          /\ after.protocol = Nil
          /\ ~after.established

\* C14: in every state in which a connection awaits its handshake and for
\* every hello of a server peer, finishHandshake returns nil only if the
\* peer's ClusterId is the local one, the two ClusterUUIds are equal or one
\* of them is zero, and the peer's RMId is not in RMsRemoved; otherwise it
\* returns an error and the connection gets no protocol, does not enter Run
\* and is not established.  ServerEstablished is told only by a connection
\* in Run that holds a server protocol.
C14_HandshakeAdmission ==
  /\ conn.currentState = "Handshake" =>
       \A hello \in ConnHellos :
         hello.productOk /\ ~hello.isClient => C14_Step(hello)
  /\ conn.established =>
       /\ conn.currentState = "Run"
       /\ conn.protocol # Nil
       /\ conn.previousState = "Run"

\* The handshake with a server peer has failed on the peer's topology or on
\* its removal.
C14_Witness ==
  /\ conn.err \in {"Removed", "UnequalTopology"}
  /\ conn.currentState # "Run"
  /\ ~conn.established

\* The protocol violations of C15 in the hellos of a peer.
BadHello(hello) == hello.ioOk /\ ~hello.productOk

MismatchedCluster(hello) ==
  hello.ioOk /\ hello.productOk /\ ~hello.isClient /\ ~SameCluster(hello)

RemovedPeer(hello) ==
  /\ hello.ioOk /\ hello.productOk /\ ~hello.isClient
  /\ SameCluster(hello) /\ CompatibleClusterUUId(hello) /\ ~NotRemoved(hello)

\* The connection is shut down for good.
Fatal(c) == c.shuttingDown /\ c.currentState = "none"

\* No handler runs on a connection that is shut down.
ShutDownIsFinal == conn.shuttingDown => conn.currentState = "none" /\ ~ENABLED ConnStateStep

\* C15 as stated: a handshake that meets a bad hello, a mismatched cluster id
\* or a removed peer shuts the connection down, whoever dialed.
C15_ViolationAlwaysFatal ==
  conn.currentState = "Handshake" =>
    \A hello \in ConnHellos :
      BadHello(hello) \/ MismatchedCluster(hello) \/ RemovedPeer(hello) =>
        Fatal(connectionHandshakeStart(conn, hello))

\* C15 (amended): a handshake that meets a removed peer shuts the connection
\* down, whoever dialed; one that meets a bad hello or a mismatched cluster
\* id shuts down a connection that came from the listener and sends a
\* connection that this node dialed back to Delay.  A connection that is
\* shut down stays so.
C15_ViolationFatalUnlessDialer ==
  /\ conn.currentState = "Handshake" =>
       \A hello \in ConnHellos :
         LET after == connectionHandshakeStart(conn, hello)
         IN /\ RemovedPeer(hello) => Fatal(after)
            /\ BadHello(hello) \/ MismatchedCluster(hello) =>
                 IF conn.connectionNumber = 0
                 THEN after.currentState = "Delay" /\ ~after.shuttingDown
                 ELSE Fatal(after)
  /\ ShutDownIsFinal

\* A connection this node dialed is shut down because the peer is removed.
C15_Witness ==
  /\ conn.connectionNumber = 0
  /\ conn.err = "Removed"
  /\ Fatal(conn)

\* The connection is treated as failed: it has left Run, for a restart or
\* for good, and the connection manager has been told that it is lost.
TreatedAsFailed(c) ==
  /\ c.currentState \in {"Delay", "none"}
  /\ c.isServer \/ c.isClient => c.lost

C16_Beat(sent) ==
  LET after == crBeat(cr, sent)
  IN /\ cr.silent >= MissingBeatsLimit => TreatedAsFailed(after)
     /\ cr.silent < MissingBeatsLimit /\ sent =>
          after.currentState = "Run" /\ after.silent = cr.silent + 1
     /\ after.err = "MissedBeats" => cr.silent = MissingBeatsLimit

C16_Msg(which) ==
  LET after == crHandleMsg(cr, which)
  IN after.missingBeats = 0 /\ after.silent = 0

\* C16: while a connection runs, missingBeats is the number of beats handled
\* since it last received a message (or started to run) and never exceeds
\* two; a beat handled when two beats have passed without a message makes
\* the connection fail (restart or shutdown, the connection manager being
\* told), a beat handled earlier does not fail it by the beat check, and any
\* message, a heartbeat included, sets the count to zero.
C16_HeartbeatLiveness ==
  cr.currentState = "Run" =>
    /\ cr.missingBeats = cr.silent
    /\ cr.silent <= MissingBeatsLimit
    /\ \A sent \in BOOLEAN : C16_Beat(sent)
    /\ \A which \in CRMessages : C16_Msg(which)

\* A connection was shut down by the beat check after two silent beats.
C16_Witness ==
  /\ cr.err = "MissedBeats"
  /\ cr.silent = MissingBeatsLimit
  /\ cr.currentState = "none"

(***************************************************************************)
(* Properties of the version cache                                         *)
(***************************************************************************)

\* The indices an only[...] capability names.
OnlySet(refs) == {refs.only[i] : i \in 1..Len(refs.only)}

\* refsNew grants no more than refsOld.
RefsWithin(refsNew, refsOld) ==
  refsOld.which = "only"
    => refsNew.which = "only" /\ OnlySet(refsNew) \subseteq OnlySet(refsOld)

\* cap grants no more than caps.
GrantsNoMore(cap, caps) ==
  /\ cap.value = caps.value \/ cap.value = "none" \/ caps.value = "readWrite"
  /\ RefsWithin(cap.refsRead, caps.refsRead)
  /\ RefsWithin(cap.refsWrite, caps.refsWrite)

\* C19: EnsureSubset(vUUId, cap) returns true iff cap grants no more than
\* the capability cached for vUUId: the value capability is equal to the
\* cached one, or is none, or the cached one is readwrite; if the cached
\* refsRead is only[S] then cap's refsRead is only[S'] with S' a subset of S;
\* and likewise for refsWrite.  For an unknown var or a cached maximal
\* capability it returns true.
C19_EnsureSubsetIffGrantsNoMore ==
  \A vUUId \in VCVarIds, cap \in VCCapabilities :
    LET c == vc.cache[vUUId]
    IN EnsureSubset(vc, vUUId, cap)
         = IF c = Nil THEN TRUE
           ELSE IF c.caps = maxCapsCap THEN TRUE
           ELSE GrantsNoMore(cap, c.caps)

\* The cases of C19 that do not turn on the lists of an only[...]: an unknown
\* var, a maximal cached capability, a value capability that exceeds the
\* cached one, and all asked of a cached only[...].
C19_EnsureSubsetOutsideLists ==
  \A vUUId \in VCVarIds, cap \in VCCapabilities :
    LET c == vc.cache[vUUId]
        result == EnsureSubset(vc, vUUId, cap)
    IN IF c = Nil THEN result
       ELSE /\ c.caps = maxCapsCap => result
            /\ (c.caps # maxCapsCap
                /\ ~(cap.value = c.caps.value \/ cap.value = "none"
                     \/ c.caps.value = "readWrite"))
               => ~result
            /\ (c.caps.refsRead.which = "only" /\ cap.refsRead.which = "all") => ~result
            /\ (c.caps.refsWrite.which = "only" /\ cap.refsWrite.which = "all") => ~result

\* The cached capability lets references 0 and 1 be read, and EnsureSubset
\* has returned false for var x, as it does when the client asks for
\* reference 1 alone.
C19_SubsetRefused ==
  /\ vc.ensured # Nil
  /\ vc.cache["x"] # Nil
  /\ IF vc.cache["x"] = Nil THEN FALSE
     ELSE /\ vc.cache["x"].caps.value = "readWrite"
          /\ vc.cache["x"].caps.refsRead = [which |-> "only", only |-> <<0, 1>>]
          /\ vc.cache["x"].caps.refsWrite.which = "all"
          /\ vc.ensured = [vUUId |-> "x", result |-> FALSE]
          /\ ~EnsureSubset(vc, "x", [value |-> "none",
                                     refsRead |-> [which |-> "only", only |-> <<1>>],
                                     refsWrite |-> [which |-> "all"]])

\* The positions of the actions of txn that create or write var v.
WritesOf(txn, v) ==
  {idx \in 1..Len(txn.actions) :
     txn.actions[idx].varId = v /\ txn.actions[idx].which # "read"}

\* The last thing txn wrote to var v.
LastWriteOf(txn, v) ==
  txn.actions[CHOOSE idx \in WritesOf(txn, v) : \A other \in WritesOf(txn, v) : other <= idx]

\* The capability lets the value be read.
PermitsRead(caps) == caps.value \in {"read", "readWrite"}

\* The capability lets the reference at position idx (counted from 0) be read.
PermitsReference(caps, idx) ==
  caps.refsRead.which = "all" \/ idx \in OnlySet(caps.refsRead)

\* C20: after UpdateFromCommit(txn, outcome) the cache holds, for every var
\* the txn created or wrote, the txn's id, the commit clock element, and the
\* written value and references, and these are exposed to the client iff the
\* caller's capability on that var permits reading them.
C20_CommitReadBack ==
  vc.written # Nil
    => /\ ~vc.panicked
       /\ \A v \in VCVarIds :
            WritesOf(vc.written, v) # {}
              => LET c == vc.cache[v]
                     w == LastWriteOf(vc.written, v)
                 IN IF c = Nil THEN FALSE
                    ELSE LET sent == AddToClientAction(c, v)
                         IN /\ c.txnId = [txn |-> vc.written.id]
                            /\ c.clockElem = VCClock[v]
                            /\ c.value = w.value
                            /\ c.references = w.references
                            /\ sent.which = "write"
                            /\ (sent.value = w.value) = PermitsRead(c.caps)
                            /\ \A idx \in 0..(Len(w.references) - 1) :
                                 (sent.references[idx + 1] = w.references[idx + 1])
                                   = PermitsReference(c.caps, idx)

\* What UpdateFromCommit does do: a txn of reads only leaves the cache as it
\* was, and any other txn ends in a panic at its first create, write or
\* readwrite, after storing the var if it is a create of an unknown var.
C20_CommitPanicsUnlessReadOnly ==
  vc.written # Nil
    => vc.panicked = (\E v \in VCVarIds : WritesOf(vc.written, v) # {})

\* UpdateFromCommit has been called with a txn that writes the cached var x
\* and nothing else.
C20_WriteCommitted ==
  /\ vc.written # Nil
  /\ IF vc.written = Nil THEN FALSE
     ELSE /\ Len(vc.written.actions) = 1
          /\ vc.written.actions[1].which = "write"
          /\ vc.written.actions[1].varId = "x"
  /\ vc.cache["x"] # Nil
  /\ vc.panicked
(***************************************************************************)
(* Properties of the binary backoff engine                                 *)
(***************************************************************************)

\* C21: every delay (Cur) that a BinaryBackoffEngine created with min = 2ms
\* and max = 2s holds after any sequence of Advance and Shrink calls lies
\* within [2ms, 2s].
C21_DelayWithinMinMax ==
  bbe.last # "none"
    => SubmissionMinSubmitDelay <= bbe.Cur /\ bbe.Cur <= SubmissionMaxSubmitDelay

\* C21 as the code has it: the period the delay is drawn from lies within
\* [2ms, 2s], and the delay lies within [0, period), so it is less than 2s
\* and can be less than 2ms; Advance returns a delay drawn the same way.
C21_DelayBelowPeriod ==
  /\ SubmissionMinSubmitDelay <= bbe.period
  /\ bbe.period <= SubmissionMaxSubmitDelay
  /\ 0 <= bbe.Cur
  /\ bbe.Cur < bbe.period
  /\ 0 <= bbe.returned
  /\ bbe.returned < SubmissionMaxSubmitDelay

\* After enough Advance calls the period has reached 2s and the delay drawn
\* is the greatest one.
C21_Witness ==
  /\ bbe.last = "Advance"
  /\ bbe.period = SubmissionMaxSubmitDelay
  /\ bbe.Cur = SubmissionMaxSubmitDelay - 1

\* ---------------------------------------------------------------------
\* The acceptor's life: order of states, sendToAll, deletion, txn sender.

\* A step of acceptor a from state s to another state t follows the order
\* of Acceptor.nextState, or is the return to WriteToDisk of an accepted
\* ballot that changed the outcome.
AcceptorStepInOrder(a) ==
  LET r == acc[a]
      q == acc'[a]
      s == r.currentState
      t == q.currentState
      complete == q.pendingTLC = {} /\ q.tscReceived
  IN \/ s = t /\ (s = "WriteToDisk" /\ q.outcome # r.outcome => q.outcome.id > r.outcome.id)
     \/ s = NoState /\ ~r.finished /\ t = "ReceiveBallots" /\ r.outcomeOnDisk = Nil
     \/ s = NoState /\ ~r.finished /\ t = "AwaitLocallyComplete" /\ r.outcomeOnDisk # Nil
     \/ s = "ReceiveBallots" /\ t = "WriteToDisk"
     \/ s = "WriteToDisk" /\ t = "AwaitLocallyComplete" /\ q.outcomeOnDisk # Nil
     \/ s = "WriteToDisk" /\ t = "DeleteFromDisk" /\ q.outcomeOnDisk # Nil /\ complete
     \/ s = "AwaitLocallyComplete" /\ t = "DeleteFromDisk" /\ complete
     \/ s = "DeleteFromDisk" /\ t = NoState /\ q.finished
     \/ /\ s \in {"AwaitLocallyComplete", "DeleteFromDisk"}
        /\ t = "WriteToDisk"
        /\ q.nextId > r.nextId
        /\ ~Equal(q.outcome, r.outcome)

\* C22: the acceptor only moves ReceiveBallots -> WriteToDisk ->
\* AwaitLocallyComplete -> DeleteFromDisk -> finished, or back to
\* WriteToDisk on an accepted ballot that changes the outcome; a new
\* acceptor starts in ReceiveBallots, a restored one in
\* AwaitLocallyComplete, and Start changes nothing once a state is set.
C22_StatesInOrder ==
  /\ [][\A a \in Acceptors : AcceptorStepInOrder(a)]_vars
  /\ [](\A a \in Acceptors :
          acc[a].currentState # NoState => AcceptorStart(acc[a]) = acc[a])

\* A restored acceptor, started in AwaitLocallyComplete, that an accepted
\* ballot sent back to WriteToDisk and that awaits local completion of the
\* changed outcome.
C22_Witness ==
  /\ acc[1].createdFromDisk
  /\ acc[1].currentState = "AwaitLocallyComplete"
  /\ acc[1].outcomeOnDisk.id > 1

\* The RMs of the txn's allocations that are not removed: all of them, or
\* the active ones only.
AllocatedRMs(toAll, removed) ==
  {Allocations[i].rmId : i \in {j \in 1..Len(Allocations) :
      /\ Allocations[j].rmId \notin removed
      /\ toAll \/ Allocations[j].active # 0}}

\* The writes to disk a step of acceptor a adds to the KV store's queue.
NewPuts(a) ==
  {acc'[a].kv[i] : i \in {j \in 1..Len(acc'[a].kv) :
      /\ acc'[a].kv[j].op = "Put"
      /\ \A k \in 1..Len(acc[a].kv) : acc[a].kv[k] # acc'[a].kv[j]}}

SendToAllSticky(a) ==
  /\ acc[a].sendToAll => acc'[a].sendToAll
  /\ \A put \in NewPuts(a) : put.data.sendToAll = acc'[a].sendToAll

RecipientsBySendToAll(r) ==
  /\ r.outcome # Nil /\ IsCommit(r.outcome) => r.sendToAll
  /\ r.currentState \in {"AwaitLocallyComplete", "DeleteFromDisk"} =>
       /\ r.sendToAllOnDisk = r.sendToAll
       /\ SeqToSet(r.tgcRecipients) = AllocatedRMs(r.sendToAll, r.rmsRemoved)
  /\ r.currentState = "AwaitLocallyComplete" /\ r.twoBSender # Nil =>
       /\ AllocatedRMs(r.sendToAll, r.rmsRemoved) \subseteq SeqToSet(r.twoBSender.recipients)
       /\ SeqToSet(r.twoBSender.recipients) \subseteq AllocatedRMs(r.sendToAll, {})
  /\ r.finished /\ r.tgcSent # Nil =>
       SeqToSet(r.tgcSent.recipients) = AllocatedRMs(r.sendToAll, r.rmsRemoved)

\* C23: sendToAll, true once a commit outcome has been determined, stays
\* true and is written with every later outcome, also an abort; the 2B and
\* TGC recipients are then all allocated RMs that are not removed, and the
\* active ones only while sendToAll is false.
C23_SendToAllSticky ==
  /\ [][\A a \in Acceptors : SendToAllSticky(a)]_vars
  /\ [](\A a \in Acceptors : RecipientsBySendToAll(acc[a]))

\* An abort that replaced a commit is on disk with sendToAll, and its 2B
\* goes to the passive RM too.
C23_Witness ==
  /\ acc[1].currentState = "AwaitLocallyComplete"
  /\ ~IsCommit(acc[1].outcomeOnDisk)
  /\ acc[1].disk.sendToAll
  /\ acc[1].twoBSender # Nil
  /\ 3 \in SeqToSet(acc[1].twoBSender.recipients)
  /\ acc[1].twoBSender \in acc[1].subscribers

\* C24: TxnGloballyComplete is sent, and the acceptor finished, only by a
\* deletion's completion that finds the acceptor in DeleteFromDisk, and
\* never while the acceptor's record is on disk.
C24_NoTGCWhileOnDisk ==
  \A a \in Acceptors :
    acc[a].tgcSent # Nil =>
      /\ acc[a].finished
      /\ acc[a].tgcSent.disk = Nil

\* The half of C24 about the completion's processing: the TGC is sent, and
\* the acceptor finished, in a step that runs a deletion's completion and
\* finds the acceptor in DeleteFromDisk.
C24_TGCOnlyOnDeletionDone ==
  [][\A a \in Acceptors :
       acc'[a].tgcSent # acc[a].tgcSent \/ acc'[a].finished # acc[a].finished =>
         /\ acc[a].currentState = "DeleteFromDisk"
         /\ \E cb \in acc[a].exe : cb.type = "deletionDone" /\ cb \notin acc'[a].exe
         /\ acc'[a].finished
         /\ acc'[a].tgcSent # Nil]_vars

\* A TGC sent by the completion of an earlier deletion, while the outcome
\* written after a late ballot is on disk and its deletion is still queued.
C24_TGCWithRecordOnDisk ==
  /\ acc[1].finished
  /\ acc[1].tgcSent # Nil
  /\ acc[1].tgcSent.disk # Nil
  /\ acc[1].kv # <<>>
  /\ Head(acc[1].kv).op = "Del"

\* The submitter's connection as acceptorReceiveBallots judges it: absent, or
\* of another boot count than the txn's (when that is > 0).
SubmitterAway(r) ==
  \/ r.conns[TxnSubmitter] = 0
  \/ r.conns[TxnSubmitter] # TxnSubmitterBootCount /\ TxnSubmitterBootCount > 0

CreateTxnSenderCb == [type |-> "createTxnSender"]

\* The subscriber s is not subscribed, or its removal is the last word
\* about it in the connection manager's queue.
Unsubscribed(r, s) ==
  LET about == {i \in 1..Len(r.cmQueue) : r.cmQueue[i].sub = s}
  IN IF about = {} THEN s \notin r.subscribers
     ELSE r.cmQueue[CHOOSE i \in about : \A j \in about : j <= i].op = "Remove"

TxnSenderStep(a) ==
  LET r == acc[a]
      q == acc'[a]
  IN /\ CreateTxnSenderCb \in q.exe /\ CreateTxnSenderCb \notin r.exe =>
          /\ SubmitterAway(q)
          /\ ArbSubscriber \in q.subscribers
     /\ /\ ArbSubscriber \in q.subscribers
        /\ SubmitterAway(q)
        /\ ArbSubscriber \notin r.subscribers \/ q.conns # r.conns
        => CreateTxnSenderCb \in q.exe
     /\ q.txnSender # r.txnSender =>
          /\ r.txnSender = Nil
          /\ r.currentState = "ReceiveBallots" /\ q.currentState = "ReceiveBallots"
          /\ CreateTxnSenderCb \in r.exe
          /\ SeqToSet(q.txnSender.recipients) = AllocatedRMs(FALSE, {})
          /\ Last(q.cmQueue) = [op |-> "Add", sub |-> q.txnSender]

TxnSenderState(r) ==
  /\ r.currentState = "ReceiveBallots" /\ r.txnSender = Nil /\ CreateTxnSenderCb \in r.exe =>
       exeRun(r, CreateTxnSenderCb).txnSender # Nil
  /\ r.txnSender # Nil /\ r.currentState # "ReceiveBallots" => Unsubscribed(r, r.txnSender)

\* C25: when the submitter is not connected, is lost or comes back with
\* another boot count while the acceptor receives ballots, the acceptor
\* starts a repeating sender of the txn to exactly the active RMs; at most
\* once, never outside ReceiveBallots, and unsubscribed from WriteToDisk on.
C25_TxnSender ==
  /\ [][\A a \in Acceptors : TxnSenderStep(a)]_vars
  /\ [](\A a \in Acceptors : TxnSenderState(acc[a]))

\* The txn sender, created after the submitter came back with another boot
\* count, has been subscribed and then unsubscribed by the write to disk.
C25_Witness ==
  /\ acc[2].txnSender # Nil
  /\ acc[2].conns[TxnSubmitter] = 2
  /\ acc[2].currentState = "AwaitLocallyComplete"
  /\ acc[2].cmQueue = <<>>
  /\ acc[2].txnSender \notin acc[2].subscribers
(***************************************************************************)
(* ACCEPTOR: REMOVED RMS AND EARLY COMPLETIONS                             *)
(***************************************************************************)

\* In AwaitLocallyComplete nothing that has already happened is waited for:
\* no TLC of an RM that has sent one or has been removed, no TSC of a
\* removed submitter; and the acceptor does not stay there with nothing left
\* to wait for.
NothingStaleAwaited(r) ==
  r.currentState = "AwaitLocallyComplete" =>
    /\ r.pendingTLC \cap r.tlcsReceived = {}
    /\ r.pendingTLC \cap r.rmsRemoved = {}
    /\ TxnSubmitter \in r.rmsRemoved => r.tscReceived
    /\ ~(r.pendingTLC = {} /\ r.tscReceived)

\* C34: whenever the acceptor is in AwaitLocallyComplete, pendingTLC holds
\* no RM that has sent its TLC in any state before and no RM the topology
\* has removed, and a removed submitter counts as having sent its TSC, so
\* that none of them keeps the acceptor from DeleteFromDisk.
C34_NothingStaleAwaited == \A a \in accs : NothingStaleAwaited(acc[a])

\* C34 as the code has it: the same, on a node the topology has not removed.
C34_NothingStaleAwaitedUnlessRemoved ==
  \A a \in accs : a \notin acc[a].rmsRemoved => NothingStaleAwaited(acc[a])

\* The acceptor of node 2 waits in AwaitLocallyComplete for the TLC of its
\* own node only: the submitter, RM 1, was removed while it waited and counts
\* for both its TLC and its TSC.
C34_Witness ==
  /\ acc[2].currentState = "AwaitLocallyComplete"
  /\ acc[2].rmsRemoved = {1}
  /\ acc[2].pendingTLC = {2}
  /\ acc[2].tscReceived
  /\ 1 \in acc[2].tlcsReceived
  /\ acc[2].twoBSender # Nil
  /\ IF acc[2].twoBSender # Nil THEN 1 \in SeqToSet(acc[2].twoBSender.recipients) ELSE FALSE


\* ---- the registered connection of an RM ------------------------------------

\* The connection registered for every remote RM presents that RMId.
RegisteredUnderOwnRMId ==
  \A r \in AllRMs \ {RMId} :
    cm.rmToServer[r] # 0 => ConnTable[cm.rmToServer[r]].rmId = r

\* The connection registered for every RM is established.
RegisteredEstablished ==
  \A r \in AllRMs : cm.rmToServer[r] # 0 => cdEstablished(cm, cm.rmToServer[r])

\* serverLost tells the subscribers of the loss before it tells them of the
\* backup.
LostBeforeBackup ==
  \A i \in 1..Len(cm.notes) : \A j \in 1..Len(cm.notes) :
    (/\ cm.notes[i].type = "ConnectionLost"
     /\ cm.notes[j].type = "ConnectionEstablished"
     /\ cm.notes[j].cd # LocalCd
     /\ cm.rmToServer[cm.notes[i].rmId] = cm.notes[j].cd) => i < j

\* C38: in every reachable state of the connection manager the connection
\* registered for an RM presents that RMId and is established, also after
\* serverLost has failed over to a backup of the same host, and the
\* subscribers are told ConnectionLost before the backup's
\* ConnectionEstablished.
C38_RegisteredConnections ==
  /\ RegisteredUnderOwnRMId
  /\ RegisteredEstablished
  /\ LostBeforeBackup

\* serverLost has just failed over for RM 2 to connection 5 of host h3, which
\* presents RMId 3: the subscribers were told ConnectionLost for RM 2 and
\* then ConnectionEstablished for the connection of RM 3.
C38_BackupOfAnotherRM ==
  /\ cm.rmToServer[2] = 5
  /\ cm.rmToServer[3] = 5
  /\ cm.conn[5].established
  /\ cm.notes = <<[type |-> "ConnectionLost", rmId |-> 2, cd |-> 0],
                  [type |-> "ConnectionEstablished", rmId |-> 3, cd |-> 5]>>

\* ---- dispatch of SubmissionOutcomes ----------------------------------------

\* The client connection the txn id names is registered with the node in
\* its current incarnation.
ClientRegistered(d, txnId) ==
  /\ txnId.connectionCount \in d.connCountToClient
  /\ txnId.bootCount = d.BootCount \/ txnId.bootCount = 0

\* The client connection the txn id names has gone and will not come back.
ClientVanished(d, txnId) ==
  \/ txnId.connectionCount \in d.lost
  \/ txnId.bootCount # d.BootCount /\ txnId.bootCount # 0

\* Whatever SubmissionOutcome arrives from whichever sender: if the client is
\* registered the outcome is handed to it and nothing is sent; otherwise a
\* TxnSubmissionComplete for the txn is sent to the sender and nothing is
\* handed to any client.
DispatchRule ==
  \A sender \in RMs, txnId \in DispatchTxnIds :
    LET after == DispatchSubmissionOutcome(dm, sender, txnId)
    IN IF ClientRegistered(dm, txnId)
       THEN /\ after.sent = dm.sent
            /\ after.forwarded = dm.forwarded \cup
                 {[conn |-> txnId.connectionCount, sender |-> sender, txnId |-> txnId]}
       ELSE /\ after.sent = dm.sent \cup
                 {[msg |-> "TxnSubmissionComplete", txnId |-> txnId, to |-> sender]}
            /\ after.forwarded = dm.forwarded

\* An outcome of acceptor 2 on its way to the submitter whose client has
\* vanished.
OutcomeForVanishedClient ==
  /\ [sender |-> 2, txnId |-> SubmittedTxnId] \in dm.inbox
  /\ ClientVanished(dm, SubmittedTxnId)

\* C35: a SubmissionOutcome for a client connection that is not registered,
\* or of another incarnation of the node, is answered with a
\* TxnSubmissionComplete for the txn to the sending acceptor, and an outcome
\* for a registered client is forwarded to it with no TxnSubmissionComplete
\* sent by the connection manager; so the acceptor whose outcome
\* reaches a node whose client has vanished comes to have its TSC.
C35_OutcomeForUnknownClientAnswered ==
  /\ []DispatchRule
  /\ OutcomeForVanishedClient ~> acc[2].tscReceived

\* The outcome was once forwarded to the registered client; the client has
\* gone since and the acceptor has had its TSC from the connection manager.
C35_Witness ==
  /\ dm.BootCount = TxnSubmitterBootCount
  /\ SubmittedTxnId.connectionCount \in dm.lost
  /\ dm.forwarded # {}
  /\ dm.sent = {} /\ dm.inbox = {}
  /\ acc[2].tscReceived

\* ---- the done callbacks of TopologyChanged --------------------------------

\* Call n of VarManager.TopologyChanged was still held when a later
\* topology arrived: its doneWrapped was called with false.
VMSuperseded(n) ==
  vm.calls[n].resultChanClosed /\ vm.calls[n].results = <<FALSE>>

\* The done of every call on the var manager has been called at most once;
\* not at all only while the closure is queued or the done is held, with the
\* executor running or the go-routine still to wake up; with true only by
\* the closure or checkAllDisk; with false only when a later closure found
\* it held, the executor refused the closure, or the executor has stopped.
VMDoneRules ==
  \A n \in 1..Len(vm.calls) :
    LET c == vm.calls[n]
    IN /\ Len(c.results) <= 1
       /\ c.results = << >> =>
            /\ c.closure = "queued" \/ vm.onDisk = n
            /\ ~vm.terminated \/ c.waiting
       /\ c.results = <<TRUE>> => c.closure = "executed" /\ c.resultChanClosed
       /\ c.results = <<FALSE>> =>
            \/ c.closure = "refused"
            \/ vm.terminated /\ ~c.resultChanClosed
            \/ \E m \in (n + 1)..Len(vm.calls) : vm.calls[m].closure = "executed"

\* Call n of ProposerManager.TopologyChanged was still held when a later
\* topology arrived: its message was closed with outcome false.
TCSuperseded(n) ==
  ptc.calls[n].closed /\ ~ptc.calls[n].outcome

\* The same for the proposer manager; the caller's done is called by the
\* go-routine of the call, with true only for a message closed with
\* outcome true.
TCDoneRules ==
  \A n \in 1..Len(ptc.calls) :
    LET c == ptc.calls[n]
    IN /\ Len(c.results) <= 1
       /\ c.results = << >> =>
            /\ c.waiting
            /\ c.closed \/ c.msg = "queued" \/ ptc.onDisk = n
       /\ c.results = <<TRUE>> => c.msg = "executed" /\ c.closed /\ c.outcome
       /\ c.results = <<FALSE>> =>
            \/ c.msg = "refused"
            \/ ptc.terminated
            \/ TCSuperseded(n) /\ \E m \in (n + 1)..Len(ptc.calls) : ptc.calls[m].msg = "executed"
       /\ TCSuperseded(n) => c.results \in {<< >>, <<FALSE>>}

\* A message of the proposer manager is closed once: closed, it keeps its
\* outcome.
TCClosedOnce ==
  \A n \in 1..Len(ptc.calls) :
    ptc.calls[n].closed =>
      ptc'.calls[n].closed /\ ptc'.calls[n].outcome = ptc.calls[n].outcome

\* Call n on the var manager is answered or its done is held.
VMAnsweredOrHeld(n) ==
  IF n <= Len(vm.calls) THEN vm.calls[n].results # << >> \/ vm.onDisk = n ELSE FALSE

\* Call n on the proposer manager is answered or its done is held.
TCAnsweredOrHeld(n) ==
  IF n <= Len(ptc.calls) THEN ptc.calls[n].results # << >> \/ ptc.onDisk = n ELSE FALSE

TwoBOutcomeHandled(m, t, sender, outcomeIsCommit) ==
  LET txn == m.txns[t]
      after == TwoBTxnVotesReceived(m, sender, txn, outcomeIsCommit)
      calls == twoBOutcomeCalls(m, sender, txn, outcomeIsCommit)
      alloc == AllocForRMId(txn, m.RMId)
      inst == InstId(t, m.RMId)
      given == calls = << [call |-> "BallotOutcomeReceived", proposer |-> t,
                           sender |-> sender, outcomeIsCommit |-> outcomeIsCommit] >>
      othersKept == \A u \in PMTxnIds \ {t} : after.proposers[u] = m.proposers[u]
  IN /\ othersKept
     /\ IF m.proposers[t] # Nil
        THEN /\ given
             /\ after.proposers = m.proposers
             /\ after.proposals = m.proposals
             /\ after.oneShot = m.oneShot
        ELSE IF alloc.active # 0
        THEN /\ given
             /\ after.proposers[t] # Nil
             /\ after.proposers[t].mode = "ActiveLearner"
             /\ after.proposals[inst] # Nil
             /\ after.proposals[inst].instanceRMId = m.RMId
             /\ \A i \in PMInstIds \ {inst} : after.proposals[i] = m.proposals[i]
             /\ m.proposals[inst] = Nil =>
                  /\ Len(after.proposals[inst].ballots) = Len(alloc.actionIndices)
                  /\ \A k \in 1..Len(after.proposals[inst].ballots) :
                       after.proposals[inst].ballots[k].Vote = "AbortDeadlock"
             /\ after.oneShot = m.oneShot
        ELSE IF outcomeIsCommit
        THEN /\ given
             /\ after.proposers[t] # Nil
             /\ after.proposers[t].mode = "PassiveLearner"
             /\ after.proposals = m.proposals
             /\ after.oneShot = m.oneShot
        ELSE /\ after.proposers = m.proposers
             /\ after.proposals = m.proposals
             /\ after.oneShot = t
             /\ calls = << [call |-> "NewOneShotSender", msg |-> "TxnLocallyComplete",
                            txnId |-> t, to |-> sender] >>

\* C26: a 2B outcome for a txn without a proposer makes an ActiveLearner and
\* abort proposals of the node's own instance if the node's allocation is
\* active, a PassiveLearner if it is not and the outcome is a commit, and
\* only a TxnLocallyComplete to the sender if it is not and the outcome is
\* an abort; the proposer gets the outcome; with a proposer, the outcome
\* goes to it and no proposer is made.
C26_TwoBOutcome ==
  \A t \in PMTxnIds, sender \in PMSenders, outcomeIsCommit \in BOOLEAN :
    TwoBOutcomeHandled(pm, t, sender, outcomeIsCommit)

\* Of two txns the node is passive for, the committed one has a passive
\* learner and the aborted one was answered by a TxnLocallyComplete.
C26_Witness ==
  /\ pm.proposers[1] # Nil
  /\ pm.proposers[1].mode = "PassiveLearner"
  /\ AllocForRMId(pm.txns[2], pm.RMId).active = 0
  /\ pm.proposers[2] = Nil
  /\ pm.oneShot = 2
(***************************************************************************)
(* QUIET TASK: PROPERTIES                                                  *)
(***************************************************************************)

\* The installations whose callback runs in this step.
QuietCallbacksRun == qt.acked \ qt'.acked

\* One step of the task: the stage stays, goes up by one or returns to 0; it
\* goes up only in the callback of an installation of the kind the stage
\* waits for; it returns to 0 only with a new configuration to install; a
\* topology txn is created only by a valid task in stage 3, and it records
\* this RM as quiet.
QuietStepInOrder ==
  /\ qt'.stage \in {qt.stage, qt.stage + 1, 0}
  /\ qt'.stage = qt.stage + 1 =>
       \E n \in QuietCallbacksRun :
         qt.installations[n].kind =
           (IF qt.stage = 1 THEN "VarSubscriber" ELSE "ProposerSubscriber")
  /\ (qt.stage # 0 /\ qt'.stage = 0) => qt'.installing # qt.installing
  /\ qt'.txns # qt.txns =>
       /\ qt'.stage = 3
       /\ IsValidTask(qt')
       /\ \A txn \in qt'.txns \ qt.txns : RMId \in txn.QuietRMIds

\* What Tick makes of the task as it is: an invalid task is completed and
\* otherwise left alone; a valid one that finds a configuration other than
\* the one it installs takes that one and is in stage 0.
QuietTickRules ==
  \A hostErr \in BOOLEAN, formed \in BOOLEAN :
    LET after == quietTick(qt, hostErr, formed)
    IN IF ~IsValidTask(qt) THEN after = [qt EXCEPT !.completed = TRUE]
       ELSE IF hostErr THEN TRUE
       ELSE IF qt.activeTopology.NextConfiguration.Configuration # qt.installing
       THEN /\ after.stage = 0
            /\ after.installing = qt.activeTopology.NextConfiguration.Configuration
            /\ after.txns = qt.txns
       ELSE after.stage = qt.stage

\* C29: the stage of a quiet task goes 0, 1, 2, 3 one step at a time, 0 to 1
\* and 2 to 3 only on an acknowledgement of the proposers and 1 to 2 only on
\* one of the vars; the topology txn that records this RM as quiet is
\* created only in stage 3; Tick puts the stage back to 0 when the active
\* next configuration is not the one being installed; and Tick of a task
\* that is no longer valid does no stage work and completes the task.
C29_QuietStages == [][QuietStepInOrder]_vars /\ []QuietTickRules

\* The task has gone through the stages in order, each on the acknowledgement
\* of the installation issued in the stage before, created the topology txn
\* in stage 3, and was completed by the Tick that found this RM quiet in the
\* active topology.
C29_Witness ==
  /\ qt.stage = 3
  /\ qt.txns # {}
  /\ qt.completed
  /\ qt.activeTopology # Nil
  /\ IF qt.activeTopology # Nil
     THEN IF qt.activeTopology.NextConfiguration # Nil
          THEN RMId \in qt.activeTopology.NextConfiguration.QuietRMIds
          ELSE FALSE
     ELSE FALSE
  /\ IF qt.advancedBy # 0 THEN qt.installations[qt.advancedBy].stage = 2 ELSE FALSE
  /\ \E n \in 1..Len(qt.installations) : qt.installations[n].kind = "VarSubscriber"

\* C30: stage 3 is reached only on the acknowledgement of a proposer
\* installation that was issued in stage 2; an acknowledgement of an
\* installation issued in stage 0 never takes the task from stage 2 to 3.
C30_StageThreeByStageTwoAck ==
  IF qt.stage = 3 /\ qt.advancedBy # 0
  THEN qt.installations[qt.advancedBy].stage = 2
  ELSE TRUE

\* Tick ran twice in stage 0; the callback of the second installation ran in
\* stage 2 and took the task to stage 3, where the topology txn was created,
\* before the proposers had even been given the installation of stage 2.
C30_StageThreeByStageZeroAck ==
  /\ qt.stage = 3
  /\ qt.advancedBy # 0
  /\ IF qt.advancedBy # 0 THEN qt.installations[qt.advancedBy].stage = 0 ELSE FALSE
  /\ qt.txns # {}
  /\ \A n \in 1..Len(qt.installations) :
       qt.installations[n].stage = 2 => qt.seen["ProposerSubscriber"] < n
  /\ \E n \in 1..Len(qt.installations) : qt.installations[n].stage = 2

(***************************************************************************)
(* SUBSCRIPTION MANAGER: PROPERTIES                                        *)
(***************************************************************************)

\* C33: once the subscription manager has seen all acceptors agree on a txn
\* and deleted its subscriptionUpdate, a duplicate outcome from one of them
\* creates no new subscriptionUpdate: the incomplete map holds no entry for
\* a txn that has terminated.
C33_NoEntryForTerminatedTxn ==
  \A t \in sm.allAgreedSeen : sm.incomplete[t] = Nil

\* All three acceptors agreed on txn 1, its subscriptionUpdate was deleted,
\* and acceptor 1 sent its outcome again: there is a subscriptionUpdate for
\* txn 1 with that one outcome and none decided, and nothing was sent back.
C33_EntryForTerminatedTxn ==
  /\ 1 \in sm.allAgreedSeen
  /\ sm.incomplete[1] # Nil
  /\ IF sm.incomplete[1] # Nil
     THEN /\ sm.incomplete[1].outcome = Nil
          /\ sm.incomplete[1].accumulator.received[1] # Nil
          /\ sm.incomplete[1].accumulator.received[2] = Nil
          /\ sm.incomplete[1].accumulator.received[3] = Nil
     ELSE FALSE
  /\ sm.consumed[1] = 1
  /\ sm.sent = {}
  /\ ~sm.terminating


\* ---------------------------------------------------------------------
\* Topology subscribers.

\* C27: for each SetTopology and each kind, the kind's callback is called
\* at most once, only when every subscriber called with the topology has
\* called done, and never if one of them called done(false).
C27_CallbackAfterAllAcks ==
  \A w \in ts.waits :
    /\ w.fired <= 1
    /\ w.fired = 1 => w.pending = {} /\ ~w.failed /\ ~w.running /\ w.resultChan = <<>>
    /\ ~w.running => w.expected = 0 /\ w.pending = {}

\* The proposer subscribers have all answered and their callback has been
\* called, while the var subscriber answered with a failure and the
\* go-routine of its kind ended without calling anything.
C27_Witness ==
  \E w \in ts.waits, v \in ts.waits :
    /\ w.kind = "ProposerSubscriber" /\ w.fired = 1 /\ w.called = 2
    /\ v.kind = "VarSubscriber" /\ v.n = w.n
    /\ v.failed /\ ~v.running /\ v.fired = 0
    /\ ts.subscribers["ProposerSubscriber"] = {}

\* ---------------------------------------------------------------------
\* The connection's states.

\* A step of the connection follows Delay -> Dial -> Handshake -> Run, goes
\* to Delay on a failed dial or on an error it may restart after, or ends
\* the connection.
ConnStepInOrder ==
  LET s == conn.currentState
      t == conn'.currentState
      timed == conn'.delay /\ conn'.timer = 1
  IN \/ s = t
     \/ s = "Dial" /\ t = "Handshake"
     \/ s = "Dial" /\ t = "Delay" /\ timed
     \/ s = "Handshake" /\ t = "Run"
     \/ s = "Handshake" /\ t = "Delay" /\ timed
          /\ conn.connectionNumber = 0 /\ conn'.restartable
     \/ s = "Run" /\ t = "Delay" /\ timed
          /\ conn.connectionNumber = 0 /\ conn.restartable
          /\ ~conn.protocol.isClient
          /\ conn.protocol.remoteRMId \notin conn.topology.RMsRemoved
     \/ s = "Delay" /\ t = "Dial" /\ conn.timer = 1 /\ conn'.timer = 0 /\ ~conn'.delay
     \/ /\ t = "none" /\ conn'.shuttingDown
        /\ conn'.err # "nil" /\ conn.connectionNumber = 0 /\ conn'.restartable =>
              IF conn.protocol = Nil THEN FALSE ELSE conn.protocol.isClient

\* In Delay exactly one timer is under way, and its message does nothing
\* to a connection that is not in Delay.
ConnSingleTimer ==
  /\ conn.timer <= 1
  /\ conn.currentState = "Delay" => conn.delay /\ conn.timer = 1
  /\ conn.timer = 1 /\ conn.currentState # "Delay" =>
       connectionDelayExec(conn) = [conn EXCEPT !.timer = 0]

\* C28: the connection goes Delay -> Dial -> Handshake -> Run; a failed
\* dial, and an error of a connection that was dialed, whose peer is not
\* removed and that is no client's, take it to Delay, where one timer runs
\* and from where it dials again when the timer's message comes (a message
\* that does nothing in another state); accepted connections and client
\* connections end on an error.
C28_ConnectionStates ==
  /\ [][ConnStepInOrder]_vars
  /\ []ConnSingleTimer
  /\ (conn.currentState = "Delay") ~> (conn.currentState = "Dial" \/ conn.shuttingDown)

\* A dialed connection that failed, waited for the timer and dials again.
C28_Witness ==
  /\ conn.connectionNumber = 0
  /\ conn.currentState = "Dial"
  /\ conn.previousState = "Delay"
  /\ conn.err = "nil"
  /\ conn.timer = 0
(***************************************************************************)
(* VAR WRITE PROTOCOL: WRITE COALESCING                                    *)
(***************************************************************************)

\* The writes of the var that are outstanding: read-write transactions the
\* KV store has still to run, and completions the executor has still to run.
OutstandingWrites == Len(vr.kv) + Cardinality(vr.exe)

\* With a write outstanding the var is active and remembers it; a further
\* write it has put off is the one of its current frame, the frame of the
\* last SetCurFrame.
WritePutOffIsLatest ==
  /\ OutstandingWrites <= 1
  /\ OutstandingWrites = 1 =>
       IF vr.active = Nil THEN FALSE
       ELSE IF vr.active.writeInProgress = Nil THEN FALSE
       ELSE vr.active.writeInProgress.kind = "write" =>
              vr.active.writeInProgress.f = vr.active.curFrame
  /\ OutstandingWrites = 0 =>
       IF vr.active = Nil THEN TRUE
       ELSE /\ vr.active.writeInProgress = Nil
            /\ vr.active.curFrame.frameTxnId # Nil =>
                 /\ vr.active.curFrameOnDisk = vr.active.curFrame
                 /\ vr.Vars = [writeTxnId |-> vr.active.curFrame.frameTxnId]

\* The completion of a write: if SetCurFrame was called meanwhile, one write
\* is issued, for the current frame; if not, none.
OneFurtherWrite ==
  \A cb \in vr.exe, frameIdle \in BOOLEAN :
    LET after == writtenToDisk(vr, cb, frameIdle)
    IN IF vr.active.writeInProgress.kind = "write"
       THEN /\ Len(after.kv) = 1
            /\ after.kv[1].f = vr.active.curFrame
            /\ after.active.writeInProgress.kind = "makeInactive"
       ELSE after.kv = << >>

\* C31: a var has at most one KV write outstanding; calls of SetCurFrame
\* during a write lead to exactly one further write when it completes, for
\* the frame of the last call; with no write outstanding the frame on disk is
\* the frame of the last SetCurFrame.
C31_WriteCoalescing == WritePutOffIsLatest /\ OneFurtherWrite

\* SetCurFrame was called twice while the write of frame 1 was outstanding;
\* the one write issued since is for frame 3 and replaces frame 1 on disk.
C31_Witness ==
  /\ vr.active # Nil
  /\ Len(vr.kv) = 1
  /\ IF Len(vr.kv) = 1
     THEN /\ vr.kv[1].f = NewFrame(TxnId(3))
          /\ vr.kv[1].curFrameOnDisk = NewFrame(TxnId(1))
     ELSE FALSE
  /\ vr.Txns = {TxnId(1)}


\* ---- vars and the active table ---------------------------------------------

\* Every Var object with a write in progress or a frame that is not idle is
\* the object in the active table, and so is every object whose write is
\* queued or whose completion is queued.
VLBusyVarsActive ==
  \A id \in VLVarIds :
    /\ \A o \in 1..Len(va[id].objs) : ~vlIsIdle(va[id].objs[o]) => va[id].active = o
    /\ \A o \in va[id].kv \cup va[id].exe :
         va[id].active = o /\ va[id].objs[o].writeInProgress # "nil"

\* Whatever ApplyToVar is called with next, it ends without a panic, and a
\* var it leaves out of the active table is idle.
VLNextApplyToVarSafe ==
  \A id \in VLVarIds :
    \A fun \in VLFuns \cup {[kind |-> "written", obj |-> o] : o \in va[id].exe} :
      (fun.kind \notin {"ReceiveTxn", "written"} => va[id].active # 0 \/ va[id].Vars)
        => LET after == vlApplyToVar(va[id], fun, fun.kind = "ReceiveTxn")
           IN /\ after.panic = ""
              /\ \A o \in 1..Len(after.objs) :
                   after.active # o => vlIsIdle(after.objs[o])

\* C37: a var with a write in progress or a current frame that is not idle
\* is in the var manager's active table, SetInactive is called only for the
\* object registered there, after every ApplyToVar a var missing from the
\* table is idle, and none of the panics 'Var is not active, yet is not
\* idle', 'inactive but doesn't exist', 'inactive but different var' and
\* 'not found' happens.
C37_BusyVarsStayActive ==
  /\ VLRunning
  /\ VLBusyVarsActive
  /\ VLNextApplyToVarSafe

\* Var x was written, became inactive, and has been restored from disk as a
\* second object, which has a write in progress with a later frame waiting;
\* the first object is idle.
C37_Witness ==
  /\ Len(va["x"].objs) = 2
  /\ va["x"].active = 2
  /\ va["x"].Vars
  /\ IF Len(va["x"].objs) = 2
     THEN /\ va["x"].objs[2].writeInProgress = "write"
          /\ vlIsIdle(va["x"].objs[1])
     ELSE FALSE
  /\ va["x"].exe = {2}
(***************************************************************************)
(* PROPERTIES OF UpdateFromAbort AND mergeCaps                             *)
(***************************************************************************)

\* Whether the version of the cached entry before is at most that of after.
VersionNotLess(before, after) ==
  IF after.txnId = Nil THEN FALSE
  ELSE \/ after.clockElem > before.clockElem
       \/ /\ after.clockElem = before.clockElem
          /\ before.txnId.txn <= after.txnId.txn

\* The vars the cache holds with a version.
VersionedVars(c) == {v \in VCVarIds : IF c.cache[v] = Nil THEN FALSE ELSE c.cache[v].txnId # Nil}

CachedVars(c) == {v \in VCVarIds : c.cache[v] # Nil}

\* Whether the update of txnId replaces the cached entry, as the claim has it.
Replaces(cached, txnId) ==
  IF cached.txnId = Nil THEN TRUE
  ELSE \/ AbortClockElem(txnId) > cached.clockElem
       \/ /\ AbortClockElem(txnId) = cached.clockElem
          /\ cached.txnId.txn < txnId

\* One write of a var of the cache replaces the cached txnId, clockElem, value
\* and references exactly when Replaces holds, and leaves them otherwise.
WriteRule ==
  \A txnId \in AbortTxnIds, order \in GraphOrders :
    \A action \in {a \in AbortActions : a.which = "write"} :
      LET v == action.varId
          before == vc.cache[v]
          after == UpdateFromAbort(vc, <<[txnId |-> txnId, actions |-> <<action>>]>>,
                                   order).cache[v]
      IN IF before = Nil THEN TRUE
         ELSE IF Replaces(before, txnId)
              THEN /\ after.txnId = [txn |-> txnId]
                   /\ after.clockElem = AbortClockElem(txnId)
                   /\ after.references = action.references
              ELSE /\ after.txnId = before.txnId
                   /\ after.clockElem = before.clockElem
                   /\ after.references = before.references

\* Over a list of writes the version of a var of the cache does not decrease.
WritesMonotone ==
  \A updatesCap \in WriteUpdateLists, order \in GraphOrders :
    LET after == UpdateFromAbort(vc, updatesCap, order)
    IN \A v \in VersionedVars(vc) : VersionNotLess(vc.cache[v], after.cache[v])

\* The version, value and references the cache holds of a var.
Held(c, v) ==
  [txnId |-> c.cache[v].txnId, clockElem |-> c.cache[v].clockElem,
   value |-> c.cache[v].value, references |-> c.cache[v].references]

\* A list of writes applied a second time changes nothing of what the cache
\* holds of the vars it had before the first time.
WritesIdempotent ==
  \A updatesCap \in WriteUpdateLists, order \in GraphOrders :
    LET once == UpdateFromAbort(vc, updatesCap, order)
        twice == UpdateFromAbort(once, updatesCap, order)
    IN \A v \in CachedVars(vc) : Held(twice, v) = Held(once, v)

\* A missing newer than the cached version clears the entry.
MissingClears ==
  \A txnId \in AbortTxnIds, v \in VersionedVars(vc), order \in GraphOrders :
    LET before == vc.cache[v]
        after == UpdateFromAbort(vc, <<[txnId |-> txnId,
                                        actions |-> <<[which |-> "missing", varId |-> v]>>]>>,
                                 order).cache[v]
    IN IF Replaces(before, txnId)
       THEN after.txnId = Nil /\ after.clockElem = 0 /\ after.references = <<>>
       ELSE after = before

\* Over any list of updates the version of a var of the cache does not
\* decrease.
AllMonotone ==
  \A updatesCap \in UpdateLists, order \in GraphOrders :
    LET after == UpdateFromAbort(vc, updatesCap, order)
    IN \A v \in VersionedVars(vc) : VersionNotLess(vc.cache[v], after.cache[v])

\* Any list of updates applied a second time changes nothing of the cache.
AllIdempotent ==
  \A updatesCap \in UpdateLists, order \in GraphOrders :
    LET once == UpdateFromAbort(vc, updatesCap, order)
    IN UpdateFromAbort(once, updatesCap, order).cache = once.cache

\* C39 as stated: a write replaces what the cache holds of a var only when
\* the cached entry has no txnId or is older, so that over any list of
\* updates the (clockElem, txnId) of a cached var does not decrease and the
\* same list applied twice changes nothing the second time.
C39_NeverMovesBackwards == WriteRule /\ AllMonotone /\ AllIdempotent

\* C39, amended: a write replaces the cached txnId, clockElem, value and
\* references of a var of the cache exactly when the cached entry has no
\* txnId, or the update's clockElem is greater, or the clockElems are equal
\* and the cached txnId is less; over lists of writes the (clockElem, txnId)
\* of a cached var does not decrease and the same list applied twice leaves
\* what the cache held of its vars as the first time left it; a missing that
\* is newer than the cached version clears the entry, txnId nil and
\* clockElem 0, so that an older write is taken after it.
C39_WritesNeverMoveBackwards ==
  WriteRule /\ WritesMonotone /\ WritesIdempotent /\ MissingClears

\* An abort has been applied to a cache that holds x at the newest version,
\* and no update of it was valid.
C39_Witness ==
  /\ vc.cache["x"].txnId = [txn |-> 3]
  /\ vc.written = {}
  /\ \E txnId \in AbortTxnIds : ~Replaces(vc.cache["x"], txnId)

\* ---- mergeCaps ---------------------------------------------------------------

PermitsWrite(caps) == caps.value \in {"write", "readWrite"}

\* The union of two references capabilities, and whether merged is it.
RefsUnion(merged, aRefs, bRefs) ==
  IF aRefs.which = "all" \/ bRefs.which = "all"
  THEN merged.which = "all"
  ELSE /\ merged.which = "only"
       /\ OnlySet(merged) = OnlySet(aRefs) \cup OnlySet(bRefs)
       /\ \A i \in 1..(Len(merged.only) - 1) : merged.only[i] < merged.only[i + 1]

\* What the last merge was given, and what it left in the cache.
Merged == vc.ensured # Nil

MergedValueIsUnion ==
  Merged =>
    LET merged == vc.cache["x"].caps
    IN /\ PermitsRead(merged) = (PermitsRead(vc.ensured.a) \/ PermitsRead(vc.ensured.b))
       /\ PermitsWrite(merged) = (PermitsWrite(vc.ensured.a) \/ PermitsWrite(vc.ensured.b))

MergedRefsReadIsUnion ==
  Merged => RefsUnion(vc.cache["x"].caps.refsRead, vc.ensured.a.refsRead,
                      vc.ensured.b.refsRead)

MergedRefsWriteIsUnion ==
  Merged => RefsUnion(vc.cache["x"].caps.refsWrite, vc.ensured.a.refsWrite,
                      vc.ensured.b.refsWrite)

GainedReadIsGain ==
  Merged => (vc.ensured.gainedRead
               = (~PermitsRead(vc.ensured.a) /\ PermitsRead(vc.cache["x"].caps)))

MergedMaximalIffAllFour ==
  Merged =>
    LET a == vc.ensured.a
        b == vc.ensured.b
    IN (vc.cache["x"].caps = maxCapsCap)
         = (/\ PermitsRead(a) \/ PermitsRead(b)
            /\ PermitsWrite(a) \/ PermitsWrite(b)
            /\ a.refsRead.which = "all" \/ b.refsRead.which = "all"
            /\ a.refsWrite.which = "all" \/ b.refsWrite.which = "all")

\* C40 as stated: mergeCaps leaves the union of the two capabilities, value
\* by value and list by list, the maximal capability when all four parts are
\* maximal, and returns whether the value became readable by the merge.
C40_MergeCapsIsUnion ==
  /\ MergedValueIsUnion
  /\ MergedRefsReadIsUnion
  /\ MergedRefsWriteIsUnion
  /\ MergedMaximalIffAllFour
  /\ GainedReadIsGain

\* A capability that may read the value has been merged into one that may
\* not: the merged one may write it and not read it, and the merge reports
\* that read was gained.
C40_ReadBecomesWrite ==
  /\ Merged
  /\ vc.ensured.a.value = "none"
  /\ vc.ensured.b.value = "read"
  /\ vc.ensured.gainedRead
  /\ vc.cache["x"].caps.value = "write"
(***************************************************************************)
(* VAR MANAGER AND TOPOLOGY CHANGES: PROPERTIES                            *)
(***************************************************************************)

\* Barrier 1 is reached for this RM and barrier 2 is not.
GoingToDisk(topology) ==
  IF topology = Nil THEN FALSE
  ELSE topology.NextBarrierReached1 /\ ~topology.NextBarrierReached2

\* The calls of TopologyChanged whose done is called with the given result
\* in this step.
VMAnswered(result) ==
  {n \in 1..Len(vm'.calls) :
     LET before == IF n <= Len(vm.calls) THEN Len(vm.calls[n].results) ELSE 0
         after == vm'.calls[n].results
     IN IF Len(after) > before THEN after[Len(after)] = result ELSE FALSE}

\* Every active var but the topology var is on disk.
VMAllOnDisk(s) ==
  \A id \in VMVarIds \ {TopologyVarUUId} :
    IF s.active[id] = Nil THEN TRUE ELSE vmIsOnDisk(s.active[id])

\* One step of the var manager: a topology with barrier 1 reached and
\* barrier 2 not is answered with true only with every var on disk and the
\* rolls banned; banned rolls are allowed again only by the closure of a
\* topology in which barrier 1 is not reached.
VMStepRules ==
  /\ \A n \in VMAnswered(TRUE) :
       GoingToDisk(vm'.calls[n].topology) => VMAllOnDisk(vm') /\ ~vm'.RollAllowed
  /\ (~vm.RollAllowed /\ vm'.RollAllowed) =>
       \E n \in 1..Len(vm.calls) :
         /\ vm.calls[n].closure = "queued"
         /\ vm'.calls[n].closure = "executed"
         /\ vmBarrier1NotReached(vm.calls[n].topology)

\* C32: a topology in which barrier 1 is reached for this RM and barrier 2
\* is not is acknowledged with true only once every active var other than
\* the topology var is on disk, and rolls are banned at that moment; rolls
\* stay banned until a topology arrives in which barrier 1 is not reached.
C32_BanRollsAndDrain == [][VMStepRules]_vars

\* Rolls were allowed; the topology with barrier 1 reached has been answered
\* with true, with var x active and on disk and the topology var not, and
\* rolls are banned.
C32_Witness ==
  /\ Len(vm.calls) = 1
  /\ IF Len(vm.calls) = 1
     THEN /\ GoingToDisk(vm.calls[1].topology)
          /\ vm.calls[1].results = <<TRUE>>
     ELSE FALSE
  /\ ~vm.RollAllowed
  /\ vm.active["x"] # Nil
  /\ vm.active[TopologyVarUUId] # Nil
  /\ IF vm.active[TopologyVarUUId] # Nil THEN ~vmIsOnDisk(vm.active[TopologyVarUUId]) ELSE FALSE

====
